---- MODULE Spec2Model ----
(***************************************************************************)
(* HealthSense symptom triage: the analysis pipeline of                    *)
(* DiagnosisAnalyzer.analyze_symptoms (validation, rule-based urgency      *)
(* gate, fact retrieval, the retrying model gateway, reply parsing and the *)
(* merge of the two urgency signals), modelled as a state machine.         *)
(*                                                                         *)
(* A Python str is a sequence of one-character strings.  A JSON object of  *)
(* the model reply is a record; a key that may be absent holds <<>> when   *)
(* absent and <<v>> when present with value v.                             *)
(***************************************************************************)
EXTENDS Integers, Sequences, FiniteSets, TLC

\* ------------------------------------------------------------------------
\* Strings
\* ------------------------------------------------------------------------

UpperLetters ==
  <<"A","B","C","D","E","F","G","H","I","J","K","L","M",
    "N","O","P","Q","R","S","T","U","V","W","X","Y","Z">>

LowerLetters ==
  <<"a","b","c","d","e","f","g","h","i","j","k","l","m",
    "n","o","p","q","r","s","t","u","v","w","x","y","z">>

Digits ==
  {"0","1","2","3","4","5","6","7","8","9"}

\* The characters str.strip() removes.
Whitespace ==
  {" ", "\t", "\n"}

\* str.lower() on the uppercase letters.
LowerOf ==
  [c \in {UpperLetters[i] : i \in 1..Len(UpperLetters)} |->
     LowerLetters[CHOOSE i \in 1..Len(UpperLetters) : UpperLetters[i] = c]]

\* str.lower() on one character.
LowerChar(c) ==
  IF c \in DOMAIN LowerOf THEN LowerOf[c] ELSE c

\* str.lower()
Lower(s) ==
  [i \in 1..Len(s) |-> LowerChar(s[i])]

\* "k in s" for Python strings: k occurs in s as a contiguous substring.
Contains(k, s) ==
  \E i \in 0..(Len(s) - Len(k)) : \A j \in 1..Len(k) : s[i + j] = k[j]

\* str.strip(): s without its leading and trailing whitespace.
Strip(s) ==
  IF \A i \in 1..Len(s) : s[i] \in Whitespace
    THEN <<>>
    ELSE LET first == CHOOSE i \in 1..Len(s) :
                        /\ s[i] \notin Whitespace
                        /\ \A j \in 1..(i - 1) : s[j] \in Whitespace
             last  == CHOOSE i \in 1..Len(s) :
                        /\ s[i] \notin Whitespace
                        /\ \A j \in (i + 1)..Len(s) : s[j] \in Whitespace
         IN  SubSeq(s, first, last)

\* Python's s[:k]: the first k elements (all but the last -k when k < 0).
Slice(s, k) ==
  IF k >= 0
    THEN SubSeq(s, 1, IF k < Len(s) THEN k ELSE Len(s))
    ELSE SubSeq(s, 1, IF Len(s) + k > 0 THEN Len(s) + k ELSE 0)

\* "x in xs" for a Python list.
InList(x, xs) ==
  \E i \in 1..Len(xs) : xs[i] = x

\* The characters \w matches.
WordChars ==
  {LowerLetters[i] : i \in 1..Len(LowerLetters)}
  \cup {UpperLetters[i] : i \in 1..Len(UpperLetters)}
  \cup Digits \cup {"_"}

IsWordChar(c) ==
  c \in WordChars

\* re.findall(r'\b\w+\b', s) from position i on: the maximal runs of word
\* characters, in order.
RECURSIVE FindWords(_, _)
FindWords(s, i) ==
  IF \A j \in i..Len(s) : ~IsWordChar(s[j])
    THEN <<>>
    ELSE LET first == CHOOSE j \in i..Len(s) :
                        /\ IsWordChar(s[j])
                        /\ \A m \in i..(j - 1) : ~IsWordChar(s[m])
             stops == {j \in first..Len(s) : ~IsWordChar(s[j])}
             last  == IF stops = {} THEN Len(s)
                      ELSE (CHOOSE j \in stops : \A m \in stops : j <= m) - 1
         IN  <<SubSeq(s, first, last)>> \o FindWords(s, last + 1)

\* The urgent phrases, each a sequence of characters.
URGENT_KEYWORDS ==
  <<
    <<"c","h","e","s","t"," ","p","a","i","n">>,
    <<"h","e","a","r","t"," ","a","t","t","a","c","k">>,
    <<"s","t","r","o","k","e">>,
    <<"s","e","v","e","r","e"," ","d","i","f","f","i","c","u","l","t","y"," ","b","r","e","a","t","h","i","n","g">>,
    <<"c","a","n","'","t"," ","b","r","e","a","t","h","e">>,
    <<"u","n","c","o","n","s","c","i","o","u","s">>,
    <<"s","e","v","e","r","e"," ","b","l","e","e","d","i","n","g">>,
    <<"s","e","v","e","r","e"," ","a","l","l","e","r","g","i","c"," ","r","e","a","c","t","i","o","n">>,
    <<"s","e","v","e","r","e"," ","b","u","r","n">>,
    <<"s","e","v","e","r","e"," ","h","e","a","d"," ","i","n","j","u","r","y">>,
    <<"s","e","v","e","r","e"," ","a","b","d","o","m","i","n","a","l"," ","p","a","i","n">>,
    <<"s","e","v","e","r","e"," ","p","a","i","n">>,
    <<"l","o","s","s"," ","o","f"," ","c","o","n","s","c","i","o","u","s","n","e","s","s">>,
    <<"s","e","i","z","u","r","e">>,
    <<"c","h","o","k","i","n","g">>,
    <<"s","e","v","e","r","e"," ","t","r","a","u","m","a">>,
    <<"s","u","d","d","e","n"," ","s","e","v","e","r","e"," ","h","e","a","d","a","c","h","e">>,
    <<"t","h","u","n","d","e","r","c","l","a","p"," ","h","e","a","d","a","c","h","e">>,
    <<"s","e","v","e","r","e"," ","d","i","z","z","i","n","e","s","s">>,
    <<"s","e","v","e","r","e"," ","c","o","n","f","u","s","i","o","n">>,
    <<"s","e","v","e","r","e"," ","w","e","a","k","n","e","s","s">>,
    <<"p","a","r","a","l","y","s","i","s">> >>

\* The curated medical terms, in declaration order.
medical_keywords ==
  <<
    <<"f","e","v","e","r">>,
    <<"h","e","a","d","a","c","h","e">>,
    <<"p","a","i","n">>,
    <<"a","c","h","e">>,
    <<"n","a","u","s","e","a">>,
    <<"v","o","m","i","t","i","n","g">>,
    <<"d","i","a","r","r","h","e","a">>,
    <<"c","o","u","g","h">>,
    <<"s","o","r","e"," ","t","h","r","o","a","t">>,
    <<"f","a","t","i","g","u","e">>,
    <<"t","i","r","e","d">>,
    <<"s","h","o","r","t","n","e","s","s"," ","o","f"," ","b","r","e","a","t","h">>,
    <<"c","h","e","s","t"," ","p","a","i","n">>,
    <<"a","b","d","o","m","i","n","a","l">>,
    <<"s","t","o","m","a","c","h">>,
    <<"r","a","s","h">>,
    <<"i","t","c","h","i","n","g">>,
    <<"s","w","e","l","l","i","n","g">>,
    <<"d","i","z","z","i","n","e","s","s">>,
    <<"l","i","g","h","t","h","e","a","d","e","d">>,
    <<"c","h","i","l","l","s">>,
    <<"s","w","e","a","t","i","n","g">>,
    <<"m","u","s","c","l","e">>,
    <<"j","o","i","n","t">>,
    <<"s","t","i","f","f","n","e","s","s">>,
    <<"n","u","m","b","n","e","s","s">>,
    <<"t","i","n","g","l","i","n","g">>,
    <<"w","e","a","k","n","e","s","s">>,
    <<"c","o","n","f","u","s","i","o","n">>,
    <<"a","n","x","i","e","t","y">>,
    <<"d","e","p","r","e","s","s","i","o","n">>,
    <<"m","o","o","d">>,
    <<"s","l","e","e","p">>,
    <<"a","p","p","e","t","i","t","e">>,
    <<"w","e","i","g","h","t">> >>

\* The stop words of the token pass.
stop_words ==
  {
    <<"a">>,
    <<"a","n">>,
    <<"a","n","d">>,
    <<"a","r","e">>,
    <<"a","t">>,
    <<"b","e">>,
    <<"b","e","e","n">>,
    <<"b","e","i","n","g">>,
    <<"b","u","t">>,
    <<"b","y">>,
    <<"f","o","r">>,
    <<"h","a","d">>,
    <<"h","a","s">>,
    <<"h","a","v","e">>,
    <<"i">>,
    <<"i","n">>,
    <<"i","s">>,
    <<"o","f">>,
    <<"o","n">>,
    <<"o","r">>,
    <<"t","h","e">>,
    <<"t","o">>,
    <<"w","a","s">>,
    <<"w","e","r","e">>,
    <<"w","i","t","h">> }

\* The fact table in table order: id, keywords, and reliability_score in
\* hundredths (0.95 is 95), which keeps every product score * reliability exact.
MEDICAL_FACTS_DB ==
  <<
    [id |-> "fever_001", reliability_score |-> 95,
     keywords |-> <<<<"f","e","v","e","r">>,
                   <<"t","e","m","p","e","r","a","t","u","r","e">>,
                   <<"h","o","t">>,
                   <<"c","h","i","l","l","s">>,
                   <<"s","w","e","a","t","i","n","g">>>>],
    [id |-> "infection_001", reliability_score |-> 95,
     keywords |-> <<<<"i","n","f","e","c","t","i","o","n">>,
                   <<"v","i","r","a","l">>,
                   <<"b","a","c","t","e","r","i","a","l">>,
                   <<"f","l","u">>,
                   <<"c","o","l","d">>>>],
    [id |-> "respiratory_001", reliability_score |-> 98,
     keywords |-> <<<<"s","h","o","r","t","n","e","s","s"," ","o","f"," ","b","r","e","a","t","h">>,
                   <<"d","i","f","f","i","c","u","l","t","y"," ","b","r","e","a","t","h","i","n","g">>,
                   <<"c","h","e","s","t"," ","p","a","i","n">>,
                   <<"w","h","e","e","z","i","n","g">>>>],
    [id |-> "respiratory_002", reliability_score |-> 90,
     keywords |-> <<<<"c","o","u","g","h">>,
                   <<"p","e","r","s","i","s","t","e","n","t">>,
                   <<"c","h","r","o","n","i","c">>>>],
    [id |-> "headache_001", reliability_score |-> 92,
     keywords |-> <<<<"m","i","g","r","a","i","n","e">>,
                   <<"h","e","a","d","a","c","h","e">>,
                   <<"t","h","r","o","b","b","i","n","g">>,
                   <<"n","a","u","s","e","a">>,
                   <<"l","i","g","h","t"," ","s","e","n","s","i","t","i","v","i","t","y">>>>],
    [id |-> "headache_002", reliability_score |-> 98,
     keywords |-> <<<<"s","u","d","d","e","n"," ","h","e","a","d","a","c","h","e">>,
                   <<"s","e","v","e","r","e"," ","h","e","a","d","a","c","h","e">>,
                   <<"t","h","u","n","d","e","r","c","l","a","p">>>>],
    [id |-> "digestive_001", reliability_score |-> 93,
     keywords |-> <<<<"n","a","u","s","e","a">>,
                   <<"v","o","m","i","t","i","n","g">>,
                   <<"d","i","a","r","r","h","e","a">>,
                   <<"s","t","o","m","a","c","h">>,
                   <<"a","b","d","o","m","i","n","a","l">>,
                   <<"c","r","a","m","p","s">>>>],
    [id |-> "digestive_002", reliability_score |-> 95,
     keywords |-> <<<<"s","e","v","e","r","e"," ","a","b","d","o","m","i","n","a","l"," ","p","a","i","n">>,
                   <<"b","l","o","o","d","y"," ","s","t","o","o","l">>,
                   <<"f","e","v","e","r">>>>],
    [id |-> "cardiac_001", reliability_score |-> 99,
     keywords |-> <<<<"c","h","e","s","t"," ","p","a","i","n">>,
                   <<"h","e","a","r","t">>,
                   <<"c","a","r","d","i","a","c">>,
                   <<"a","r","m"," ","p","a","i","n">>,
                   <<"j","a","w"," ","p","a","i","n">>>>],
    [id |-> "fatigue_001", reliability_score |-> 88,
     keywords |-> <<<<"f","a","t","i","g","u","e">>,
                   <<"t","i","r","e","d","n","e","s","s">>,
                   <<"e","x","h","a","u","s","t","i","o","n">>,
                   <<"w","e","a","k","n","e","s","s">>>>],
    [id |-> "skin_001", reliability_score |-> 90,
     keywords |-> <<<<"r","a","s","h">>,
                   <<"s","k","i","n">>,
                   <<"r","e","d","n","e","s","s">>,
                   <<"i","t","c","h","i","n","g">>>>],
    [id |-> "pain_001", reliability_score |-> 87,
     keywords |-> <<<<"s","e","v","e","r","e"," ","p","a","i","n">>,
                   <<"a","c","u","t","e"," ","p","a","i","n">>,
                   <<"s","u","d","d","e","n"," ","p","a","i","n">>>>],
    [id |-> "mental_001", reliability_score |-> 90,
     keywords |-> <<<<"s","a","d","n","e","s","s">>,
                   <<"a","n","x","i","e","t","y">>,
                   <<"d","e","p","r","e","s","s","i","o","n">>,
                   <<"m","o","o","d">>>>] >>


\* ------------------------------------------------------------------------
\* Rule-based urgency gate and input validation
\* ------------------------------------------------------------------------

\* The longest symptom text validate_symptoms accepts.
MaxSymptomLen ==
  2000

\* The shortest trimmed symptom text validate_symptoms accepts.
MinSymptomLen ==
  3

\* check_urgent_keywords with the lowercasing forgotten.
check_urgent_keywords_CaseSensitive(symptoms) ==
  \E n \in 1..Len(URGENT_KEYWORDS) : Contains(URGENT_KEYWORDS[n], symptoms)

\* check_urgent_keywords: some urgent phrase occurs in the lowercased text.
check_urgent_keywords(symptoms) ==
  LET symptoms_lower == Lower(symptoms)
  IN  \E n \in 1..Len(URGENT_KEYWORDS) : Contains(URGENT_KEYWORDS[n], symptoms_lower)

\* validate_symptoms testing the raw text instead of the trimmed one.
validate_symptoms_NoStrip(symptoms) ==
  IF symptoms = <<>> THEN "empty"
  ELSE IF Len(symptoms) < MinSymptomLen THEN "too short"
  ELSE IF Len(symptoms) > MaxSymptomLen THEN "too long"
  ELSE "ok"

\* validate_symptoms rejecting a text of exactly the longest length and
\* accepting a trimmed text one character under the shortest.
validate_symptoms_OffByOne(symptoms) ==
  IF symptoms = <<>> \/ Strip(symptoms) = <<>> THEN "empty"
  ELSE IF Len(Strip(symptoms)) < MinSymptomLen - 1 THEN "too short"
  ELSE IF Len(symptoms) >= MaxSymptomLen THEN "too long"
  ELSE "ok"

\* validate_symptoms: "ok", or the reason it raises ValidationError.
validate_symptoms(symptoms) ==
  IF symptoms = <<>> \/ Strip(symptoms) = <<>> THEN "empty"
  ELSE IF Len(Strip(symptoms)) < MinSymptomLen THEN "too short"
  ELSE IF Len(symptoms) > MaxSymptomLen THEN "too long"
  ELSE "ok"

\* ------------------------------------------------------------------------
\* Keyword extraction, fact store and retrieval
\* ------------------------------------------------------------------------

\* The cap on the number of extracted keywords.
MaxKeywords ==
  20

\* First pass of extract_keywords: the curated terms found in the text.
RECURSIVE FoundMedical(_, _)
FoundMedical(text_lower, n) ==
  IF n > Len(medical_keywords) THEN <<>>
  ELSE (IF Contains(medical_keywords[n], text_lower)
          THEN <<medical_keywords[n]>> ELSE <<>>)
       \o FoundMedical(text_lower, n + 1)

\* AddWords without the test for words already collected.
RECURSIVE AddWords_NoDuplicateCheck(_, _, _)
AddWords_NoDuplicateCheck(found_keywords, words, n) ==
  IF n > Len(words) THEN found_keywords
  ELSE LET word == words[n]
       IN  IF Len(word) > 3 /\ word \notin stop_words
             THEN AddWords_NoDuplicateCheck(Append(found_keywords, word), words, n + 1)
             ELSE AddWords_NoDuplicateCheck(found_keywords, words, n + 1)

\* Second pass of extract_keywords: append the qualifying tokens in text order.
RECURSIVE AddWords(_, _, _)
AddWords(found_keywords, words, n) ==
  IF n > Len(words) THEN found_keywords
  ELSE LET word == words[n]
       IN  IF /\ Len(word) > 3
              /\ word \notin stop_words
              /\ ~InList(word, found_keywords)
             THEN AddWords(Append(found_keywords, word), words, n + 1)
             ELSE AddWords(found_keywords, words, n + 1)

\* RAGEngine.extract_keywords
extract_keywords(text) ==
  LET text_lower == Lower(text)
      found      == FoundMedical(text_lower, 1)
      words      == FindWords(text_lower, 1)
  IN  Slice(AddWords(found, words, 1), MaxKeywords)

\* The inner loops of get_facts_by_keywords: the number of user keywords that
\* contain, or are contained in, some keyword of the fact.
RECURSIVE MatchCount(_, _, _)
MatchCount(fact, keywords, n) ==
  IF n > Len(keywords) THEN 0
  ELSE LET user_keyword == Lower(keywords[n])
           hit == \E m \in 1..Len(fact.keywords) :
                    LET fact_keyword == Lower(fact.keywords[m])
                    IN  \/ Contains(user_keyword, fact_keyword)
                        \/ Contains(fact_keyword, user_keyword)
       IN  (IF hit THEN 1 ELSE 0) + MatchCount(fact, keywords, n + 1)

\* scored_facts before sorting: (final_score, table index) of every fact with
\* score > 0, in table order.
RECURSIVE ScoredFacts(_, _)
ScoredFacts(keywords, n) ==
  IF n > Len(MEDICAL_FACTS_DB) THEN <<>>
  ELSE LET fact  == MEDICAL_FACTS_DB[n]
           score == MatchCount(fact, keywords, 1)
       IN  (IF score > 0
              THEN << [final_score |-> score * fact.reliability_score, fact |-> n] >>
              ELSE <<>>)
           \o ScoredFacts(keywords, n + 1)

\* SortDescending placing an element before the earlier ones of equal score.
RECURSIVE SortDescending_TiesReversed(_)
SortDescending_TiesReversed(xs) ==
  IF xs = <<>> THEN <<>>
  ELSE LET rest == SortDescending_TiesReversed(SubSeq(xs, 1, Len(xs) - 1))
           x    == xs[Len(xs)]
           pos  == Cardinality({i \in 1..Len(rest) : rest[i].final_score > x.final_score})
       IN  SubSeq(rest, 1, pos) \o <<x>> \o SubSeq(rest, pos + 1, Len(rest))

\* list.sort(key=final_score, reverse=True): descending, equal scores keep
\* their original relative order.
RECURSIVE SortDescending(_)
SortDescending(xs) ==
  IF xs = <<>> THEN <<>>
  ELSE LET rest == SortDescending(SubSeq(xs, 1, Len(xs) - 1))
           x    == xs[Len(xs)]
           \* x goes after every element whose score is >= its own
           pos  == Cardinality({i \in 1..Len(rest) : rest[i].final_score >= x.final_score})
       IN  SubSeq(rest, 1, pos) \o <<x>> \o SubSeq(rest, pos + 1, Len(rest))

\* get_facts_by_keywords with the [:top_k] slice forgotten.
get_facts_by_keywords_NoLimit(keywords, top_k) ==
  LET scored_facts == SortDescending(ScoredFacts(keywords, 1))
  IN  [i \in 1..Len(scored_facts) |-> scored_facts[i].fact]

\* get_facts_by_keywords: table indices of the top_k best-scored facts.
get_facts_by_keywords(keywords, top_k) ==
  LET scored_facts == SortDescending(ScoredFacts(keywords, 1))
  IN  [i \in 1..Len(Slice(scored_facts, top_k)) |-> scored_facts[i].fact]

\* get_all_facts handing the table out last entry first.
get_all_facts_Reversed ==
  [i \in 1..Len(MEDICAL_FACTS_DB) |-> Len(MEDICAL_FACTS_DB) + 1 - i]

\* get_all_facts: every fact, in table order.
get_all_facts ==
  [i \in 1..Len(MEDICAL_FACTS_DB) |-> i]

\* retrieve_relevant_facts without the fallback to general facts.
retrieve_relevant_facts_NoFallback(symptoms, k) ==
  IF symptoms = <<>> \/ Strip(symptoms) = <<>> THEN <<>>
  ELSE get_facts_by_keywords(extract_keywords(symptoms), k)

\* RAGEngine.retrieve_relevant_facts with k already resolved.
retrieve_relevant_facts(symptoms, k) ==
  IF symptoms = <<>> \/ Strip(symptoms) = <<>> THEN <<>>
  ELSE LET keywords == extract_keywords(symptoms)
       IN  IF keywords = <<>> THEN Slice(get_all_facts, k)
           ELSE LET facts == get_facts_by_keywords(keywords, k)
                IN  IF facts = <<>> THEN Slice(get_all_facts, k) ELSE facts

\* ------------------------------------------------------------------------
\* Model replies (the value json.loads yields) and their parsing
\* ------------------------------------------------------------------------

\* An absent key of a JSON object, and a present one with value v.
Missing ==
  <<>>

Some(v) ==
  <<v>>

\* dict.get(key, default)
Get(opt, default) ==
  IF opt = Missing THEN default ELSE opt[1]

\* The members of the enumerations ConfidenceLevel and UrgencyLevel.
ConfidenceLevel ==
  {"High", "Medium", "Low"}

UrgencyLevel ==
  {"Critical", "Urgent", "Moderate", "Low"}

\* ConfidenceLevel(d.get("confidence", "Low")), ValueError mapped to LOW.
ParseConfidence(opt) ==
  IF Get(opt, "Low") \in ConfidenceLevel THEN Get(opt, "Low") ELSE "Low"

\* ParseUrgency accepting the lowercase spelling of Critical.
ParseUrgency_AcceptsLowercase(opt) ==
  IF Get(opt, "Moderate") \in UrgencyLevel THEN Get(opt, "Moderate")
  ELSE IF opt = Some("critical") THEN "Critical"
  ELSE "Moderate"

\* UrgencyLevel(d.get(key, "Moderate")), ValueError mapped to MODERATE.
ParseUrgency(opt) ==
  IF Get(opt, "Moderate") \in UrgencyLevel THEN Get(opt, "Moderate") ELSE "Moderate"

\* One entry of the reply's conditions mapped to a Condition.
ParseCondition(cond_data) ==
  [name             |-> Get(cond_data.name, "Unknown Condition"),
   confidence       |-> ParseConfidence(cond_data.confidence),
   reasoning        |-> Get(cond_data.reasoning, "No reasoning provided"),
   recommendation   |-> Get(cond_data.recommendation, "Consult a healthcare provider"),
   urgency          |-> ParseUrgency(cond_data.urgency),
   related_symptoms |-> Get(cond_data.related_symptoms, <<>>)]

\* The exception parse_llm_response raises on the reply, or "none": a reply
\* that is no JSON object has no .get (AttributeError), "conditions": null
\* cannot be iterated (TypeError), an entry that is no object has no .get.
ParseRaises(response) ==
  IF response.kind # "object" THEN "AttributeError"
  ELSE IF response.conditions.kind = "null" THEN "TypeError"
  ELSE IF \E i \in 1..Len(response.conditions.items) :
             response.conditions.items[i].kind # "object" THEN "AttributeError"
  ELSE "none"

\* FirstUrgent looking at the first condition only, the loop forgotten.
FirstUrgent_FirstEntryOnly(conditions) ==
  IF Len(conditions) >= 1 /\ conditions[1].urgency \in {"Critical", "Urgent"}
    THEN 1
    ELSE 0

\* Index of the first condition whose urgency is Critical or Urgent, 0 if none.
FirstUrgent(conditions) ==
  IF \E i \in 1..Len(conditions) : conditions[i].urgency \in {"Critical", "Urgent"}
    THEN CHOOSE i \in 1..Len(conditions) :
           /\ conditions[i].urgency \in {"Critical", "Urgent"}
           /\ \A j \in 1..(i - 1) : conditions[j].urgency \notin {"Critical", "Urgent"}
    ELSE 0

\* metadata of a DiagnosisResult: every key the code may set, absent as <<>>.
NoMetadata ==
  [source |-> Missing, conditions_count |-> Missing, error |-> Missing,
   rule_based_urgent |-> Missing, medical_facts_count |-> Missing]

\* parse_llm_response letting an urgent condition decide urgency_level also
\* when the reply said is_urgent true.
parse_llm_response_ConditionsAlwaysDecide(response) ==
  LET conditions == [i \in 1..Len(response.conditions.items) |->
                       ParseCondition(response.conditions.items[i])]
      is_urgent     == Get(response.is_urgent, FALSE)
      urgency_level == ParseUrgency(response.urgency_level)
      first         == FirstUrgent(conditions)
  IN  [conditions            |-> conditions,
       flagged               |-> IF first # 0 THEN TRUE ELSE is_urgent,
       urgency_level         |-> IF first # 0 THEN conditions[first].urgency
                                             ELSE urgency_level,
       lifestyle_suggestions |-> response.lifestyle_suggestions,
       next_steps            |-> Get(response.next_steps, <<>>),
       metadata              |-> [NoMetadata EXCEPT
                                    !.source = Some("gemini_ai"),
                                    !.conditions_count = Some(Len(conditions))]]

\* parse_llm_response never reading the reply's urgency_level.
parse_llm_response_LevelNotRead(response) ==
  LET conditions == [i \in 1..Len(response.conditions.items) |->
                       ParseCondition(response.conditions.items[i])]
      is_urgent     == Get(response.is_urgent, FALSE)
      first         == FirstUrgent(conditions)
      override      == ~is_urgent /\ first # 0
  IN  [conditions            |-> conditions,
       flagged               |-> IF override THEN TRUE ELSE is_urgent,
       urgency_level         |-> IF override THEN conditions[first].urgency
                                             ELSE "Moderate",
       lifestyle_suggestions |-> response.lifestyle_suggestions,
       next_steps            |-> Get(response.next_steps, <<>>),
       metadata              |-> [NoMetadata EXCEPT
                                    !.source = Some("gemini_ai"),
                                    !.conditions_count = Some(Len(conditions))]]

\* parse_llm_response on a reply it does not raise on.
parse_llm_response(response) ==
  LET conditions == [i \in 1..Len(response.conditions.items) |->
                       ParseCondition(response.conditions.items[i])]
      is_urgent     == Get(response.is_urgent, FALSE)
      urgency_level == ParseUrgency(response.urgency_level)
      first         == FirstUrgent(conditions)
      override      == ~is_urgent /\ first # 0
  IN  [conditions            |-> conditions,
       flagged               |-> IF override THEN TRUE ELSE is_urgent,
       urgency_level         |-> IF override THEN conditions[first].urgency
                                             ELSE urgency_level,
       lifestyle_suggestions |-> response.lifestyle_suggestions,
       next_steps            |-> Get(response.next_steps, <<>>),
       metadata              |-> [NoMetadata EXCEPT
                                    !.source = Some("gemini_ai"),
                                    !.conditions_count = Some(Len(conditions))]]

\* MergeRule setting urgency_level to Urgent whenever the gate flags the
\* result, whatever the level was.
MergeRule_AlwaysUrgent(result, is_urgent_rule, medical_facts) ==
  LET fire == is_urgent_rule /\ ~result.flagged
  IN  [result EXCEPT
         !.flagged = IF fire THEN TRUE ELSE @,
         !.urgency_level = IF fire THEN "Urgent" ELSE @,
         !.metadata = [@ EXCEPT
                         !.rule_based_urgent = Some(is_urgent_rule),
                         !.medical_facts_count = Some(Len(medical_facts))]]

\* The merge of the rule-based flag into the parsed result, and the metadata
\* update that follows it.
MergeRule(result, is_urgent_rule, medical_facts) ==
  LET fire == is_urgent_rule /\ ~result.flagged
  IN  [result EXCEPT
         !.flagged = IF fire THEN TRUE ELSE @,
         !.urgency_level = IF fire /\ @ = "Moderate" THEN "Urgent" ELSE @,
         !.metadata = [@ EXCEPT
                         !.rule_based_urgent = Some(is_urgent_rule),
                         !.medical_facts_count = Some(Len(medical_facts))]]

\* FallbackResult leaving the rule-based gate out of the result.
FallbackResult_IgnoresGate(is_urgent_rule, e) ==
  [conditions            |-> << [name             |-> "Analysis Unavailable",
                                 confidence       |-> "Low",
                                 reasoning        |-> "Unable to analyze symptoms at this time. Please consult a healthcare provider.",
                                 recommendation   |-> "Please consult with a healthcare professional for proper evaluation.",
                                 urgency          |-> "Moderate",
                                 related_symptoms |-> <<>>] >>,
   flagged               |-> FALSE,
   urgency_level         |-> "Moderate",
   lifestyle_suggestions |-> Missing,
   next_steps            |-> <<"Consult a healthcare provider", "Monitor symptoms">>,
   metadata              |-> [NoMetadata EXCEPT !.error = Some(e)]]

\* The result analyze_symptoms builds when the gateway call raised.
FallbackResult(is_urgent_rule, e) ==
  [conditions            |-> << [name             |-> "Analysis Unavailable",
                                 confidence       |-> "Low",
                                 reasoning        |-> "Unable to analyze symptoms at this time. Please consult a healthcare provider.",
                                 recommendation   |-> "Please consult with a healthcare professional for proper evaluation.",
                                 urgency          |-> "Moderate",
                                 related_symptoms |-> <<>>] >>,
   flagged               |-> is_urgent_rule,
   urgency_level         |-> IF is_urgent_rule THEN "Urgent" ELSE "Moderate",
   lifestyle_suggestions |-> Missing,
   next_steps            |-> <<"Consult a healthcare provider", "Monitor symptoms">>,
   metadata              |-> [NoMetadata EXCEPT !.error = Some(e)]]

\* GeminiClient._create_fallback_response
_create_fallback_response ==
  [kind          |-> "object",
   conditions    |-> [kind |-> "list", items |->
                       << [kind             |-> "object",
                           name             |-> Some("Unable to analyze"),
                           confidence       |-> Some("Low"),
                           reasoning        |-> Some("Unable to process symptoms at this time. Please consult a healthcare provider."),
                           recommendation   |-> Some("Please consult with a healthcare professional for proper evaluation."),
                           urgency          |-> Some("Moderate"),
                           related_symptoms |-> Some(<<>>)] >>],
   is_urgent     |-> Some(FALSE),
   urgency_level |-> Some("Moderate"),
   next_steps    |-> Some(<<"Consult a healthcare provider", "Monitor symptoms",
                            "Seek emergency care if symptoms worsen">>),
   lifestyle_suggestions |-> Some(<<>>)]

\* ------------------------------------------------------------------------
\* Bounds and inputs
\* ------------------------------------------------------------------------

\* Largest max_retries of the GeminiClient behind an analyzer.
MaxRetries ==
  2

\* Largest max_retries of a GeminiClient called directly.
MaxGatewayRetries ==
  4

\* Least max_retries of a GeminiClient called directly: range(max_retries)
\* is empty for 0 and for negative numbers alike.
LeastGatewayRetries ==
  -1

\* Longest conditions list of a model reply.
MaxConds ==
  2

\* Most pieces a retrieval input is concatenated from.
MaxWords ==
  2

\* Largest per-call top_k of a direct retrieval.
MaxTopK ==
  14

\* RAGEngine's default top_k.
DefaultTopK ==
  5

\* s followed by as many "x" as make it n characters long.
PadTo(s, n) ==
  s \o [i \in 1..(n - Len(s)) |-> "x"]

\* the empty string
EmptyText ==
  <<>>

\* three spaces
SpacesText ==
  <<" "," "," ">>

\* space, tab, space
TabsText ==
  <<" ","\t"," ">>

\* " ab ": two characters once trimmed
ShortText ==
  <<" ","a","b"," ">>

\* "I have a mild headache"
MildHeadache ==
  <<"I"," ","h","a","v","e"," ","a"," ","m","i","l","d"," ","h","e","a","d","a","c","h","e">>

\* "I have severe chest pain"
SevereChestPain ==
  <<"I"," ","h","a","v","e"," ","s","e","v","e","r","e"," ","c","h","e","s","t"," ","p","a","i","n">>

\* "Chest PAIN"
ChestPainCaps ==
  <<"C","h","e","s","t"," ","P","A","I","N">>

\* "severe chest pain" padded with "x" to one character over the limit
TooLongUrgent ==
  PadTo(<<"s","e","v","e","r","e"," ","c","h","e","s","t"," ","p","a","i","n"," ">>, MaxSymptomLen + 1)

\* "mild headache" padded with "x" to one character over the limit
TooLongMild ==
  PadTo(<<"m","i","l","d"," ","h","e","a","d","a","c","h","e"," ">>, MaxSymptomLen + 1)

\* The pieces the retrieval inputs are concatenated from.
Words ==
  {<<"f","e","v","e","r">>,
   <<"c","h","e","s","t"," ","p","a","i","n">>,
   <<" ">>,
   <<"N","a","u","s","e","a">>,
   <<"h","a","v","e">>,
   <<"x","y","z","z","y">>}

\* The symptom texts analyze_symptoms is called with.
Symptoms ==
  {EmptyText, SpacesText, TabsText, ShortText, MildHeadache, SevereChestPain,
   ChestPainCaps, TooLongUrgent, TooLongMild}

\* The concatenation of a sequence of strings.
RECURSIVE Concat(_)
Concat(ws) ==
  IF ws = <<>> THEN <<>> ELSE Head(ws) \o Concat(Tail(ws))

\* The symptom texts retrieve_relevant_facts is called with directly.
RetrievalTexts ==
  {Concat(ws) : ws \in UNION {[1..n -> Words] : n \in 0..MaxWords}}

\* The urgency strings a reply may carry: absent, the four canonical
\* spellings, and one that is not canonical.
ReplyUrgencies ==
  {Missing, Some("Critical"), Some("Urgent"), Some("Moderate"), Some("Low"),
   Some("critical")}

\* A conditions entry that is a JSON object with the given urgency.
ConditionEntry(urgency) ==
  [kind |-> "object", name |-> Some("Flu"), confidence |-> Some("Medium"),
   reasoning |-> Missing, recommendation |-> Missing, urgency |-> urgency,
   related_symptoms |-> Missing]

\* A conditions entry that is a JSON string, not an object.
StringEntry ==
  [kind |-> "string", name |-> Missing, confidence |-> Missing,
   reasoning |-> Missing, recommendation |-> Missing, urgency |-> Missing,
   related_symptoms |-> Missing]

ConditionEntries ==
  {ConditionEntry(u) : u \in ReplyUrgencies} \cup {StringEntry}

\* The values of the reply's "conditions" key: absent, null, or a list.
ConditionsValues ==
  {[kind |-> "missing", items |-> <<>>], [kind |-> "null", items |-> <<>>]}
  \cup {[kind |-> "list", items |-> cs] :
          cs \in UNION {[1..n -> ConditionEntries] : n \in 0..MaxConds}}

\* A reply that is a JSON array, number, string or null rather than an object.
NonObjectReply(kind) ==
  [kind |-> kind, conditions |-> [kind |-> "missing", items |-> <<>>],
   is_urgent |-> Missing, urgency_level |-> Missing, next_steps |-> Missing,
   lifestyle_suggestions |-> Missing]

\* Every value json.loads may yield for the model's text.
Replies ==
  {[kind |-> "object", conditions |-> c, is_urgent |-> iu, urgency_level |-> ul,
    next_steps |-> Missing, lifestyle_suggestions |-> Missing] :
      c \in ConditionsValues, iu \in {Missing, Some(TRUE), Some(FALSE)},
      ul \in ReplyUrgencies}
  \cup {NonObjectReply(k) : k \in {"array", "number", "string", "null"}}

\* The failures of generate_content other than a JSON parse failure.
CallErrors ==
  {"network", "auth", "timeout"}

\* ------------------------------------------------------------------------
\* State
\* ------------------------------------------------------------------------

VARIABLES
  pc,              \* position of the running call
  max_retries,     \* GeminiClient.max_retries
  top_k,           \* RAGEngine.top_k
  symptoms,        \* the symptoms argument
  is_urgent_rule,  \* the rule-based gate's value
  k,               \* the k retrieve_relevant_facts resolved
  keywords,        \* the keywords get_facts_by_keywords is called with
  medical_facts,   \* the retrieved facts, as indices into MEDICAL_FACTS_DB
  retrievals,      \* calls of retrieve_relevant_facts so far
  attempt,         \* the gateway loop's attempt
  calls,           \* calls of generate_content so far
  waited,          \* total time slept between attempts
  attempts_log,    \* what each attempt logged: "ok", "json" or the call's error
  llm_response,    \* what the gateway returned
  gateway_error,   \* what the gateway raised
  result,          \* the DiagnosisResult returned
  error,           \* the exception analyze_symptoms raised
  external,        \* what DiagnosisResult.to_dict returned
  caller           \* the front end the call came through, "direct" if none

vars ==
  <<pc, max_retries, top_k, symptoms, is_urgent_rule, k, keywords, medical_facts,
    retrievals, attempt, calls, waited, attempts_log, llm_response,
    gateway_error, result, error, external, caller>>

NoError ==
  [type |-> "none", cause |-> "none", attempts |-> 0]

NoResult ==
  [conditions |-> <<>>, flagged |-> FALSE, urgency_level |-> "Moderate",
   lifestyle_suggestions |-> Missing, next_steps |-> <<>>, metadata |-> NoMetadata]

\* No external representation yet.
NoExternal ==
  [possible_conditions |-> <<>>, flagged |-> FALSE, urgency_level |-> "Moderate",
   lifestyle_suggestions |-> <<>>, next_steps |-> <<>>, metadata |-> NoMetadata]

\* The request-local state before any call.
Fresh ==
  /\ pc = "idle"
  /\ top_k = DefaultTopK
  /\ symptoms = <<>>
  /\ is_urgent_rule = FALSE
  /\ k = 0
  /\ keywords = <<>>
  /\ medical_facts = <<>>
  /\ retrievals = 0
  /\ attempt = 0
  /\ calls = 0
  /\ waited = 0
  /\ attempts_log = <<>>
  /\ llm_response = NonObjectReply("null")
  /\ gateway_error = NoError
  /\ result = NoResult
  /\ error = NoError
  /\ external = NoExternal
  /\ caller = "direct"

\* A DiagnosisAnalyzer over a GeminiClient and a RAGEngine, just constructed.
Init ==
  /\ Fresh
  /\ max_retries \in 0..MaxRetries

\* ------------------------------------------------------------------------
\* analyze_symptoms
\* ------------------------------------------------------------------------

\* analyze_symptoms is called: validation, then the rule-based gate.
AnalyzeStart(s) ==
  /\ pc = "idle"
  /\ symptoms' = s
  /\ IF validate_symptoms(s) # "ok"
       THEN /\ pc' = "raised"
            /\ error' = [type |-> "ValidationError", cause |-> validate_symptoms(s),
                         attempts |-> 0]
            /\ UNCHANGED is_urgent_rule
       ELSE /\ pc' = "retrieve"
            /\ is_urgent_rule' = check_urgent_keywords(s)
            /\ UNCHANGED error
  /\ UNCHANGED <<caller, max_retries, top_k, external, keywords, k, medical_facts, retrievals, attempt, calls,
                 waited, attempts_log, llm_response, gateway_error, result>>

\* self.rag_engine.retrieve_relevant_facts(symptoms), then the gateway is entered.
Retrieve ==
  /\ pc = "retrieve"
  /\ k' = top_k
  /\ medical_facts' = retrieve_relevant_facts(symptoms, top_k)
  /\ retrievals' = retrievals + 1
  /\ keywords' = (IF Strip(symptoms) = <<>> THEN keywords ELSE extract_keywords(symptoms))
  /\ pc' = "gateway"
  /\ UNCHANGED <<caller, max_retries, top_k, external, symptoms, is_urgent_rule, attempt, calls,
                 waited, attempts_log, llm_response, gateway_error, result, error>>

\* range(max_retries) is empty: the loop is skipped and the gateway raises.
GatewayNoAttempt ==
  /\ pc = "gateway"
  /\ attempt >= max_retries
  /\ gateway_error' = [type |-> "GeminiAPIError", cause |-> "none", attempts |-> 0]
  /\ pc' = "gateway_raised"
  /\ UNCHANGED <<caller, max_retries, top_k, external, keywords, symptoms, is_urgent_rule, k, medical_facts,
                 retrievals, attempt, calls, waited, attempts_log, llm_response,
                 result, error>>

\* ModelReplies going on to the next attempt instead of returning.
ModelReplies_KeepsCalling(v) ==
  /\ pc = "gateway"
  /\ attempt < max_retries
  /\ calls' = calls + 1
  /\ attempts_log' = Append(attempts_log, "ok")
  /\ llm_response' = v
  /\ IF attempt = max_retries - 1
       THEN pc' = "parse" /\ UNCHANGED attempt
       ELSE attempt' = attempt + 1 /\ UNCHANGED pc
  /\ UNCHANGED <<caller, max_retries, top_k, external, keywords, symptoms, is_urgent_rule, k,
                 medical_facts, retrievals, waited, gateway_error, result, error>>

\* An attempt whose reply parses as JSON: the gateway returns the value.
ModelReplies(v) ==
  /\ pc = "gateway"
  /\ attempt < max_retries
  /\ calls' = calls + 1
  /\ attempts_log' = Append(attempts_log, "ok")
  /\ llm_response' = v
  /\ pc' = "parse"
  /\ UNCHANGED <<caller, max_retries, top_k, external, keywords, symptoms, is_urgent_rule, k, medical_facts,
                 retrievals, attempt, waited, gateway_error, result, error>>

\* ModelRepliesUnparsable treating the last parse failure like any other
\* failure: GeminiAPIError instead of the fallback reply.
ModelRepliesUnparsable_Raises ==
  /\ pc = "gateway"
  /\ attempt < max_retries
  /\ calls' = calls + 1
  /\ attempts_log' = Append(attempts_log, "json")
  /\ IF attempt = max_retries - 1
       THEN /\ gateway_error' = [type |-> "GeminiAPIError", cause |-> "json",
                                 attempts |-> max_retries]
            /\ pc' = "gateway_raised"
            /\ UNCHANGED <<attempt, waited>>
       ELSE /\ waited' = waited + 1
            /\ attempt' = attempt + 1
            /\ UNCHANGED <<gateway_error, pc>>
  /\ UNCHANGED <<caller, max_retries, top_k, external, keywords, symptoms, is_urgent_rule, k, medical_facts,
                 retrievals, llm_response, result, error>>

\* ModelRepliesUnparsable returning the fallback reply only when every
\* earlier attempt was a parse failure too, and raising otherwise.
ModelRepliesUnparsable_OnlyIfAllWere ==
  /\ pc = "gateway"
  /\ attempt < max_retries
  /\ calls' = calls + 1
  /\ attempts_log' = Append(attempts_log, "json")
  /\ IF attempt = max_retries - 1
       THEN IF \A i \in 1..Len(attempts_log) : attempts_log[i] = "json"
              THEN /\ llm_response' = _create_fallback_response
                   /\ pc' = "parse"
                   /\ UNCHANGED <<attempt, waited, gateway_error>>
              ELSE /\ gateway_error' = [type |-> "GeminiAPIError", cause |-> "json",
                                        attempts |-> max_retries]
                   /\ pc' = "gateway_raised"
                   /\ UNCHANGED <<attempt, waited, llm_response>>
       ELSE /\ waited' = waited + 1
            /\ attempt' = attempt + 1
            /\ UNCHANGED <<llm_response, pc, gateway_error>>
  /\ UNCHANGED <<caller, max_retries, top_k, external, keywords, symptoms, is_urgent_rule, k,
                 medical_facts, retrievals, result, error>>

\* An attempt whose reply does not parse (json.JSONDecodeError): the fallback
\* reply on the last attempt, else a one-unit sleep and the next attempt.
ModelRepliesUnparsable ==
  /\ pc = "gateway"
  /\ attempt < max_retries
  /\ calls' = calls + 1
  /\ attempts_log' = Append(attempts_log, "json")
  /\ IF attempt = max_retries - 1
       THEN /\ llm_response' = _create_fallback_response
            /\ pc' = "parse"
            /\ UNCHANGED <<attempt, waited>>
       ELSE /\ waited' = waited + 1
            /\ attempt' = attempt + 1
            /\ UNCHANGED <<llm_response, pc>>
  /\ UNCHANGED <<caller, max_retries, top_k, external, keywords, symptoms, is_urgent_rule, k, medical_facts,
                 retrievals, gateway_error, result, error>>

\* ModelFails sleeping 2^(attempt + 1), the attempts counted from 1.
ModelFails_CountsFromOne(e) ==
  /\ pc = "gateway"
  /\ attempt < max_retries
  /\ calls' = calls + 1
  /\ attempts_log' = Append(attempts_log, e)
  /\ IF attempt = max_retries - 1
       THEN /\ gateway_error' = [type |-> "GeminiAPIError", cause |-> e,
                                 attempts |-> max_retries]
            /\ pc' = "gateway_raised"
            /\ UNCHANGED <<attempt, waited>>
       ELSE /\ waited' = waited + 2 ^ (attempt + 1)
            /\ attempt' = attempt + 1
            /\ UNCHANGED <<gateway_error, pc>>
  /\ UNCHANGED <<caller, max_retries, top_k, external, keywords, symptoms, is_urgent_rule, k, medical_facts,
                 retrievals, llm_response, result, error>>

\* ModelFails giving up one attempt early and reporting the attempt index
\* as the attempt count.
ModelFails_GivesUpEarly(e) ==
  /\ pc = "gateway"
  /\ attempt < max_retries
  /\ calls' = calls + 1
  /\ attempts_log' = Append(attempts_log, e)
  /\ IF attempt >= max_retries - 2
       THEN /\ gateway_error' = [type |-> "GeminiAPIError", cause |-> e,
                                 attempts |-> attempt]
            /\ pc' = "gateway_raised"
            /\ UNCHANGED <<attempt, waited>>
       ELSE /\ waited' = waited + 2 ^ attempt
            /\ attempt' = attempt + 1
            /\ UNCHANGED <<gateway_error, pc>>
  /\ UNCHANGED <<caller, max_retries, top_k, external, keywords, symptoms, is_urgent_rule, k, medical_facts,
                 retrievals, llm_response, result, error>>

\* An attempt that fails any other way: GeminiAPIError on the last attempt,
\* else a sleep of 2^attempt and the next attempt.
ModelFails(e) ==
  /\ pc = "gateway"
  /\ attempt < max_retries
  /\ calls' = calls + 1
  /\ attempts_log' = Append(attempts_log, e)
  /\ IF attempt = max_retries - 1
       THEN /\ gateway_error' = [type |-> "GeminiAPIError", cause |-> e,
                                 attempts |-> max_retries]
            /\ pc' = "gateway_raised"
            /\ UNCHANGED <<attempt, waited>>
       ELSE /\ waited' = waited + 2 ^ attempt
            /\ attempt' = attempt + 1
            /\ UNCHANGED <<gateway_error, pc>>
  /\ UNCHANGED <<caller, max_retries, top_k, external, keywords, symptoms, is_urgent_rule, k, medical_facts,
                 retrievals, llm_response, result, error>>

\* AnalyzeCatch catching nothing: the gateway's exception leaves
\* analyze_symptoms as it was raised.
AnalyzeCatch_CatchesNothing ==
  /\ pc = "gateway_raised"
  /\ error' = gateway_error
  /\ pc' = "raised"
  /\ UNCHANGED <<caller, max_retries, top_k, external, keywords, symptoms, is_urgent_rule, k, medical_facts,
                 retrievals, attempt, calls, waited, attempts_log, llm_response,
                 gateway_error, result>>

\* except Exception around the gateway call: the "Analysis Unavailable" result.
AnalyzeCatch ==
  /\ pc = "gateway_raised"
  /\ result' = FallbackResult(is_urgent_rule, gateway_error)
  /\ pc' = "done"
  /\ UNCHANGED <<caller, max_retries, top_k, external, keywords, symptoms, is_urgent_rule, k, medical_facts,
                 retrievals, attempt, calls, waited, attempts_log, llm_response,
                 gateway_error, error>>

\* The gateway returned: parse the reply, merge the rule-based flag, return.
\* An exception of parse_llm_response is not caught and reaches the caller.
ParseAndMerge ==
  /\ pc = "parse"
  /\ IF ParseRaises(llm_response) # "none"
       THEN /\ pc' = "raised"
            /\ error' = [type |-> ParseRaises(llm_response), cause |-> "parse",
                         attempts |-> 0]
            /\ UNCHANGED result
       ELSE /\ pc' = "done"
            /\ result' = MergeRule(parse_llm_response(llm_response),
                                   is_urgent_rule, medical_facts)
            /\ UNCHANGED error
  /\ UNCHANGED <<caller, max_retries, top_k, external, keywords, symptoms, is_urgent_rule, k, medical_facts,
                 retrievals, attempt, calls, waited, attempts_log, llm_response,
                 gateway_error>>

Next ==
  \/ \E s \in Symptoms : AnalyzeStart(s)
  \/ Retrieve
  \/ GatewayNoAttempt
  \/ (pc = "gateway" /\ \E v \in Replies : ModelReplies(v))
  \/ ModelRepliesUnparsable
  \/ \E e \in CallErrors : ModelFails(e)
  \/ AnalyzeCatch
  \/ ParseAndMerge

Spec ==
  Init /\ [][Next]_vars

\* ------------------------------------------------------------------------
\* GeminiClient.analyze_symptoms called directly
\* ------------------------------------------------------------------------

\* The replies of a direct gateway call: one object, one array.
GatewayReplies ==
  {[kind |-> "object",
    conditions |-> [kind |-> "list", items |-> <<ConditionEntry(Some("Low"))>>],
    is_urgent |-> Some(FALSE), urgency_level |-> Some("Low"),
    next_steps |-> Missing, lifestyle_suggestions |-> Missing],
   NonObjectReply("array")}

\* A GeminiClient just constructed and its analyze_symptoms entered.
InitGateway ==
  /\ pc = "gateway"
  /\ max_retries \in LeastGatewayRetries..MaxGatewayRetries
  /\ top_k = DefaultTopK
  /\ symptoms = MildHeadache
  /\ is_urgent_rule = FALSE
  /\ k = 0
  /\ keywords = <<>>
  /\ medical_facts = <<>>
  /\ retrievals = 0
  /\ attempt = 0
  /\ calls = 0
  /\ waited = 0
  /\ attempts_log = <<>>
  /\ llm_response = NonObjectReply("null")
  /\ gateway_error = NoError
  /\ result = NoResult
  /\ error = NoError
  /\ external = NoExternal
  /\ caller = "direct"

NextGateway ==
  \/ GatewayNoAttempt
  \/ \E v \in GatewayReplies : ModelReplies(v)
  \/ ModelRepliesUnparsable
  \/ \E e \in CallErrors : ModelFails(e)

SpecGateway ==
  InitGateway /\ [][NextGateway]_vars

\* ------------------------------------------------------------------------
\* GeminiClient.analyze_symptoms with a model that may never reply
\* ------------------------------------------------------------------------

\* An attempt whose generate_content call does not come back. __init__
\* stores self.timeout and nothing reads it: the call is made without a
\* timeout, so nothing in the client ends it and the attempt stays where
\* it is.
ModelHangs ==
  /\ pc = "gateway"
  /\ attempt < max_retries
  /\ calls' = calls + 1
  /\ attempts_log' = Append(attempts_log, "no reply")
  /\ pc' = "in_call"
  /\ UNCHANGED <<caller, max_retries, top_k, external, keywords, symptoms, is_urgent_rule, k,
                 medical_facts, retrievals, attempt, waited, llm_response,
                 gateway_error, result, error>>

NextGatewayLive ==
  \/ GatewayNoAttempt
  \/ \E v \in GatewayReplies : ModelReplies(v)
  \/ ModelRepliesUnparsable
  \/ \E e \in CallErrors : ModelFails(e)
  \/ ModelHangs

\* The client is single-threaded and every step it can take is taken.
SpecGatewayLive ==
  InitGateway /\ [][NextGatewayLive]_vars /\ WF_vars(NextGatewayLive)


\* ------------------------------------------------------------------------
\* retrieve_relevant_facts called directly
\* ------------------------------------------------------------------------

\* retrieve_relevant_facts(symptoms, top_k=override): override is Missing
\* for None, and then the engine's own top_k is used.
RetrieveCall(override) ==
  /\ pc = "retrieve_call"
  /\ k' = Get(override, top_k)
  /\ medical_facts' = retrieve_relevant_facts(symptoms, Get(override, top_k))
  /\ retrievals' = retrievals + 1
  /\ keywords' = (IF Strip(symptoms) = <<>> THEN keywords ELSE extract_keywords(symptoms))
  /\ pc' = "retrieved"
  /\ UNCHANGED <<caller, max_retries, top_k, external, symptoms, is_urgent_rule, attempt, calls,
                 waited, attempts_log, llm_response, gateway_error, result, error>>

\* A RAGEngine just constructed, about to be called with some text.
InitRAG ==
  /\ pc = "retrieve_call"
  /\ max_retries = MaxRetries
  /\ top_k = DefaultTopK
  /\ symptoms \in RetrievalTexts
  /\ is_urgent_rule = FALSE
  /\ k = 0
  /\ keywords = <<>>
  /\ medical_facts = <<>>
  /\ retrievals = 0
  /\ attempt = 0
  /\ calls = 0
  /\ waited = 0
  /\ attempts_log = <<>>
  /\ llm_response = NonObjectReply("null")
  /\ gateway_error = NoError
  /\ result = NoResult
  /\ error = NoError
  /\ external = NoExternal
  /\ caller = "direct"

NextRAG ==
  \E override \in {Missing} \cup {Some(n) : n \in 0..MaxTopK} : RetrieveCall(override)

SpecRAG ==
  InitRAG /\ [][NextRAG]_vars

\* ------------------------------------------------------------------------
\* analyze_symptoms on texts around the limits of validate_symptoms
\* ------------------------------------------------------------------------

\* The lengths around the two limits.
BoundaryLens ==
  {0, 1, MinSymptomLen - 1, MinSymptomLen, MinSymptomLen + 1,
   MaxSymptomLen - 2, MaxSymptomLen - 1, MaxSymptomLen, MaxSymptomLen + 1}

\* Texts of those lengths: letters only, letters between a space and a
\* newline, a text starting with an urgent phrase, spaces only, and letters
\* followed by two spaces.
BoundaryTexts ==
  UNION {{PadTo(<<>>, n),
          <<" ">> \o PadTo(<<>>, n) \o <<"\n">>,
          PadTo(<<"c","h","e","s","t"," ","p","a","i","n"," ">>, n),
          [i \in 1..n |-> " "],
          PadTo(<<>>, n) \o <<" "," ">>} : n \in BoundaryLens}

NextValidation ==
  \/ \E s \in BoundaryTexts : AnalyzeStart(s)
  \/ Retrieve

SpecValidation ==
  Init /\ [][NextValidation]_vars

\* ------------------------------------------------------------------------
\* analyze_symptoms on replies with canonical and other enumeration strings
\* ------------------------------------------------------------------------

\* Longest conditions list of these replies.
MaxParseConds ==
  2

\* The confidence strings a reply may carry: absent, canonical spellings,
\* and one that is not canonical.
ReplyConfidences ==
  {Missing, Some("High"), Some("Low"), Some("high")}

\* A conditions entry with the given confidence and urgency.
ParseEntry(confidence, urgency) ==
  [ConditionEntry(urgency) EXCEPT !.confidence = confidence]

\* Object replies whose conditions vary in confidence and urgency.
ParseReplies ==
  {[kind |-> "object", conditions |-> [kind |-> "list", items |-> cs],
    is_urgent |-> iu, urgency_level |-> ul,
    next_steps |-> Missing, lifestyle_suggestions |-> Missing] :
      cs \in UNION {[1..n -> {ParseEntry(c, u) : c \in ReplyConfidences,
                                                  u \in ReplyUrgencies}] :
                      n \in 0..MaxParseConds},
      iu \in {Some(TRUE), Some(FALSE)},
      ul \in ReplyUrgencies}

\* analyze_symptoms has validated the text, evaluated the gate and retrieved
\* the facts, and enters a gateway that makes one attempt.
InitParse ==
  /\ pc = "gateway"
  /\ max_retries = 1
  /\ top_k = DefaultTopK
  /\ symptoms \in {MildHeadache, SevereChestPain}
  /\ is_urgent_rule = check_urgent_keywords(symptoms)
  /\ k = DefaultTopK
  /\ keywords = extract_keywords(symptoms)
  /\ medical_facts = retrieve_relevant_facts(symptoms, DefaultTopK)
  /\ retrievals = 1
  /\ attempt = 0
  /\ calls = 0
  /\ waited = 0
  /\ attempts_log = <<>>
  /\ llm_response = NonObjectReply("null")
  /\ gateway_error = NoError
  /\ result = NoResult
  /\ error = NoError
  /\ external = NoExternal
  /\ caller = "direct"

NextParse ==
  \/ (pc = "gateway" /\ \E v \in ParseReplies : ModelReplies(v))
  \/ ParseAndMerge

SpecParse ==
  InitParse /\ [][NextParse]_vars

\* ------------------------------------------------------------------------
\* analyze_symptoms on replies that differ in what decides flagged and
\* urgency_level
\* ------------------------------------------------------------------------

\* Longest conditions list of these replies.
MaxUrgencyConds ==
  2

\* Object replies with is_urgent true, false or absent, every urgency_level
\* spelling, and conditions of every urgency spelling.
UrgencyReplies ==
  {[kind |-> "object", conditions |-> [kind |-> "list", items |-> cs],
    is_urgent |-> iu, urgency_level |-> ul,
    next_steps |-> Missing, lifestyle_suggestions |-> Missing] :
      cs \in UNION {[1..n -> {ConditionEntry(u) : u \in ReplyUrgencies}] :
                      n \in 0..MaxUrgencyConds},
      iu \in {Missing, Some(TRUE), Some(FALSE)},
      ul \in ReplyUrgencies}

NextUrgency ==
  \/ (pc = "gateway" /\ \E v \in UrgencyReplies : ModelReplies(v))
  \/ ParseAndMerge

\* As for the enumeration strings: a text with and a text without an urgent
\* phrase, validated and retrieved for, and a gateway that makes one attempt.
SpecUrgency ==
  InitParse /\ [][NextUrgency]_vars

\* ------------------------------------------------------------------------
\* get_facts_by_keywords called directly
\* ------------------------------------------------------------------------

\* Longest keyword list of a direct call.
MaxKeywordList ==
  2

\* The user keywords of a direct call: "fever" (two facts of equal
\* reliability), "Pain" (four facts, not in table order once scored),
\* "nausea" (two facts, the later one more reliable), "xyzzy" (no fact), the
\* empty string, and a phrase that contains keywords of two facts.
UserKeywords ==
  {<<"f","e","v","e","r">>,
   <<"P","a","i","n">>,
   <<"n","a","u","s","e","a">>,
   <<"x","y","z","z","y">>,
   <<>>,
   <<"c","o","u","g","h"," ","a","n","d"," ","r","a","s","h">>}

KeywordLists ==
  UNION {[1..n -> UserKeywords] : n \in 0..MaxKeywordList}

\* get_facts_by_keywords(keywords, limit)
GetFactsCall(limit) ==
  /\ pc = "facts_call"
  /\ k' = limit
  /\ medical_facts' = get_facts_by_keywords(keywords, limit)
  /\ pc' = "facts_returned"
  /\ UNCHANGED <<caller, max_retries, top_k, external, keywords, symptoms, is_urgent_rule, retrievals,
                 attempt, calls, waited, attempts_log, llm_response, gateway_error,
                 result, error>>

\* The fact table loaded, about to be queried with some keyword list.
InitFacts ==
  /\ pc = "facts_call"
  /\ max_retries = MaxRetries
  /\ top_k = DefaultTopK
  /\ symptoms = <<>>
  /\ is_urgent_rule = FALSE
  /\ k = 0
  /\ keywords \in KeywordLists
  /\ medical_facts = <<>>
  /\ retrievals = 0
  /\ attempt = 0
  /\ calls = 0
  /\ waited = 0
  /\ attempts_log = <<>>
  /\ llm_response = NonObjectReply("null")
  /\ gateway_error = NoError
  /\ result = NoResult
  /\ error = NoError
  /\ external = NoExternal
  /\ caller = "direct"

NextFacts ==
  \E limit \in 0..MaxTopK : GetFactsCall(limit)

SpecFacts ==
  InitFacts /\ [][NextFacts]_vars

\* ------------------------------------------------------------------------
\* RAGEngine.extract_keywords called directly, twice
\* ------------------------------------------------------------------------

\* Every curated term, each followed by a space: more than MaxKeywords terms.
AllTermsText ==
  Concat([i \in 1..Len(medical_keywords) |-> medical_keywords[i] \o <<" ">>])

\* "WordA WordB ...": three more distinct tokens than MaxKeywords.
ManyTokensText ==
  Concat([i \in 1..(MaxKeywords + 3) |-> <<"W","o","r","d", UpperLetters[i], " ">>])

\* "fever cough rash " followed by the tokens above.
TermsAndTokensText ==
  <<"f","e","v","e","r"," ","c","o","u","g","h"," ","r","a","s","h"," ">>
  \o ManyTokensText

\* "dizzy spells, dizzy SPELLS; pains and headache": repeated tokens, a
\* token that is a curated term, curated terms inside other words.
RepeatedTokensText ==
  <<"d","i","z","z","y"," ","s","p","e","l","l","s",","," ",
    "d","i","z","z","y"," ","S","P","E","L","L","S",";"," ",
    "p","a","i","n","s"," ","a","n","d"," ","h","e","a","d","a","c","h","e">>

\* The texts extract_keywords is called with.
ExtractTexts ==
  RetrievalTexts \cup {MildHeadache, SevereChestPain, AllTermsText, ManyTokensText,
                       TermsAndTokensText, RepeatedTokensText}

\* extract_keywords(symptoms), a first and a second time.
ExtractCall ==
  /\ pc \in {"extract_call", "extracted"}
  /\ keywords' = extract_keywords(symptoms)
  /\ pc' = (IF pc = "extract_call" THEN "extracted" ELSE "extracted_twice")
  /\ UNCHANGED <<caller, max_retries, top_k, external, symptoms, is_urgent_rule, k, medical_facts,
                 retrievals, attempt, calls, waited, attempts_log, llm_response,
                 gateway_error, result, error>>

\* A RAGEngine just constructed, about to extract keywords from some text.
InitExtract ==
  /\ pc = "extract_call"
  /\ max_retries = MaxRetries
  /\ top_k = DefaultTopK
  /\ symptoms \in ExtractTexts
  /\ is_urgent_rule = FALSE
  /\ k = 0
  /\ keywords = <<>>
  /\ medical_facts = <<>>
  /\ retrievals = 0
  /\ attempt = 0
  /\ calls = 0
  /\ waited = 0
  /\ attempts_log = <<>>
  /\ llm_response = NonObjectReply("null")
  /\ gateway_error = NoError
  /\ result = NoResult
  /\ error = NoError
  /\ external = NoExternal
  /\ caller = "direct"

NextExtract ==
  ExtractCall

SpecExtract ==
  InitExtract /\ [][NextExtract]_vars

\* ------------------------------------------------------------------------
\* DiagnosisResult.to_dict, and its output given to parse_llm_response
\* ------------------------------------------------------------------------

\* Longest conditions list of a constructed DiagnosisResult.
MaxRoundTripConds ==
  2

\* to_dict leaving related_symptoms out of each condition.
to_dict_DropsRelated(self) ==
  [possible_conditions |->
     [i \in 1..Len(self.conditions) |->
        [condition        |-> self.conditions[i].name,
         confidence       |-> self.conditions[i].confidence,
         reasoning        |-> self.conditions[i].reasoning,
         recommendation   |-> self.conditions[i].recommendation,
         urgency          |-> self.conditions[i].urgency,
         related_symptoms |-> <<>>]],
   flagged               |-> self.flagged,
   urgency_level         |-> self.urgency_level,
   lifestyle_suggestions |-> Get(self.lifestyle_suggestions, <<>>),
   next_steps            |-> self.next_steps,
   metadata              |-> self.metadata]

\* DiagnosisResult.to_dict: the keys it writes and the values under them.
\* Enumeration members are their string values throughout; disclaimer, a
\* fixed string no state carries, is left out.
to_dict(self) ==
  [possible_conditions |->
     [i \in 1..Len(self.conditions) |->
        [condition        |-> self.conditions[i].name,
         confidence       |-> self.conditions[i].confidence,
         reasoning        |-> self.conditions[i].reasoning,
         recommendation   |-> self.conditions[i].recommendation,
         urgency          |-> self.conditions[i].urgency,
         related_symptoms |-> self.conditions[i].related_symptoms]],
   flagged               |-> self.flagged,
   urgency_level         |-> self.urgency_level,
   lifestyle_suggestions |-> Get(self.lifestyle_suggestions, <<>>),
   next_steps            |-> self.next_steps,
   metadata              |-> self.metadata]

\* d.get(key) on a dictionary given as a record: absent unless d has the key.
Lookup(d, key) ==
  IF key \in DOMAIN d THEN Some(d[key]) ELSE Missing

\* A dictionary as parse_llm_response reads a conditions entry: by the keys
\* name, confidence, reasoning, recommendation, urgency, related_symptoms.
EntryRead(e) ==
  [kind             |-> "object",
   name             |-> Lookup(e, "name"),
   confidence       |-> Lookup(e, "confidence"),
   reasoning        |-> Lookup(e, "reasoning"),
   recommendation   |-> Lookup(e, "recommendation"),
   urgency          |-> Lookup(e, "urgency"),
   related_symptoms |-> Lookup(e, "related_symptoms")]

\* A dictionary as parse_llm_response reads a reply: by the keys conditions,
\* is_urgent, urgency_level, next_steps, lifestyle_suggestions.
ReplyRead(d) ==
  [kind          |-> "object",
   conditions    |-> IF "conditions" \in DOMAIN d
                       THEN [kind |-> "list", items |->
                               [i \in 1..Len(d.conditions) |-> EntryRead(d.conditions[i])]]
                       ELSE [kind |-> "missing", items |-> <<>>],
   is_urgent     |-> Lookup(d, "is_urgent"),
   urgency_level |-> Lookup(d, "urgency_level"),
   next_steps    |-> Lookup(d, "next_steps"),
   lifestyle_suggestions |-> Lookup(d, "lifestyle_suggestions")]

\* The Conditions a DiagnosisResult is constructed from.
Conditions ==
  {[name |-> "Flu", confidence |-> c, reasoning |-> "Seasonal",
    recommendation |-> "Rest", urgency |-> u, related_symptoms |-> rs] :
      c \in ConfidenceLevel, u \in UrgencyLevel,
      rs \in {<<>>, <<"fever", "cough">>}}

\* The DiagnosisResults constructed.
DiagnosisResults ==
  {[conditions |-> cs, flagged |-> f, urgency_level |-> ul,
    lifestyle_suggestions |-> Missing, next_steps |-> <<"Rest">>,
    metadata |-> NoMetadata] :
      cs \in UNION {[1..n -> Conditions] : n \in 0..MaxRoundTripConds},
      f \in BOOLEAN, ul \in {"Low", "Critical"}}

\* result.to_dict()
ToDictCall ==
  /\ pc = "constructed"
  /\ external' = to_dict(result)
  /\ pc' = "serialized"
  /\ UNCHANGED <<caller, max_retries, top_k, keywords, symptoms, is_urgent_rule, k,
                 medical_facts, retrievals, attempt, calls, waited, attempts_log,
                 llm_response, gateway_error, result, error>>

\* parse_llm_response(external): the dictionary to_dict returned is read as
\* a model reply.
ParseBack ==
  /\ pc = "serialized"
  /\ llm_response' = ReplyRead(external)
  /\ IF ParseRaises(ReplyRead(external)) # "none"
       THEN /\ pc' = "raised"
            /\ error' = [type |-> ParseRaises(ReplyRead(external)), cause |-> "parse",
                         attempts |-> 0]
            /\ UNCHANGED result
       ELSE /\ pc' = "parsed_back"
            /\ result' = parse_llm_response(ReplyRead(external))
            /\ UNCHANGED error
  /\ UNCHANGED <<caller, max_retries, top_k, external, keywords, symptoms, is_urgent_rule, k,
                 medical_facts, retrievals, attempt, calls, waited, attempts_log,
                 gateway_error>>

\* A DiagnosisResult just constructed.
InitRoundTrip ==
  /\ pc = "constructed"
  /\ max_retries = MaxRetries
  /\ top_k = DefaultTopK
  /\ symptoms = <<>>
  /\ is_urgent_rule = FALSE
  /\ k = 0
  /\ keywords = <<>>
  /\ medical_facts = <<>>
  /\ retrievals = 0
  /\ attempt = 0
  /\ calls = 0
  /\ waited = 0
  /\ attempts_log = <<>>
  /\ llm_response = NonObjectReply("null")
  /\ gateway_error = NoError
  /\ result \in DiagnosisResults
  /\ error = NoError
  /\ external = NoExternal
  /\ caller = "direct"

NextRoundTrip ==
  \/ ToDictCall
  \/ ParseBack

SpecRoundTrip ==
  InitRoundTrip /\ [][NextRoundTrip]_vars






\* ------------------------------------------------------------------------
\* analyze_symptoms called through the HTTP handler and through the CLI
\* ------------------------------------------------------------------------

\* " I have a mild headache ": the text with a space on either side.
PaddedHeadache ==
  <<" ">> \o MildHeadache \o <<" ">>

\* The symptom texts the front ends are given.
CallerTexts ==
  {EmptyText, SpacesText, ShortText, MildHeadache, PaddedHeadache,
   SevereChestPain, TooLongMild}

\* What request.get_json() yields: null, or an object with or without the
\* key "symptoms".
HttpBodies ==
  {[kind |-> "null", symptoms |-> Missing], [kind |-> "object", symptoms |-> Missing]}
  \cup {[kind |-> "object", symptoms |-> Some(t)] : t \in CallerTexts}

\* How the CLI's set-up of its components ends: all constructed, no API key
\* in the environment (ConfigurationError), or the client's configuration
\* failing (GeminiAPIError from GeminiClient.__init__).
SetupOutcomes ==
  {"ok", "no_key", "configure_failed"}

\* analyze() with no analyzer configured: status 500 at once.
HttpNotConfigured ==
  /\ pc = "http_unconfigured"
  /\ pc' = "http_500"
  /\ UNCHANGED <<caller, max_retries, top_k, external, keywords, symptoms, is_urgent_rule, k,
                 medical_facts, retrievals, attempt, calls, waited, attempts_log,
                 llm_response, gateway_error, result, error>>

\* analyze() up to the analysis call: data.get on a null body raises
\* AttributeError (status 500), a missing or blank text is answered with
\* status 400, and any other text goes to analyze_symptoms trimmed.
HttpReceive(body) ==
  /\ pc = "http_request"
  /\ IF body.kind # "object"
       THEN /\ pc' = "http_500"
            /\ error' = [type |-> "AttributeError", cause |-> "request", attempts |-> 0]
            /\ UNCHANGED symptoms
       ELSE IF Strip(Get(body.symptoms, <<>>)) = <<>>
         THEN /\ pc' = "http_400"
              /\ UNCHANGED <<symptoms, error>>
         ELSE /\ pc' = "idle"
              /\ symptoms' = Strip(Get(body.symptoms, <<>>))
              /\ UNCHANGED error
  /\ UNCHANGED <<caller, max_retries, top_k, external, keywords, is_urgent_rule, k,
                 medical_facts, retrievals, attempt, calls, waited, attempts_log,
                 llm_response, gateway_error, result>>

\* analyze() after the analysis call: the result as a dictionary with status
\* 200, or the except clauses in their order: ValidationError 400,
\* GeminiAPIError 503, any other exception 500.
HttpRespond ==
  /\ caller = "http"
  /\ pc \in {"done", "raised"}
  /\ IF pc = "done"
       THEN /\ external' = to_dict(result)
            /\ pc' = "http_200"
       ELSE /\ pc' = IF error.type = "ValidationError" THEN "http_400"
                     ELSE IF error.type = "GeminiAPIError" THEN "http_503"
                     ELSE "http_500"
            /\ UNCHANGED external
  /\ UNCHANGED <<caller, max_retries, top_k, keywords, symptoms, is_urgent_rule, k,
                 medical_facts, retrievals, attempt, calls, waited, attempts_log,
                 llm_response, gateway_error, result, error>>

\* main() up to validate_input: a blank text raises ValidationError, which
\* main reports before exiting.
CliStart(text) ==
  /\ pc = "cli_main"
  /\ symptoms' = text
  /\ IF text = <<>> \/ Strip(text) = <<>>
       THEN /\ pc' = "cli_validation_exit"
            /\ error' = [type |-> "ValidationError", cause |-> "provide", attempts |-> 0]
       ELSE /\ pc' = "cli_setup"
            /\ UNCHANGED error
  /\ UNCHANGED <<caller, max_retries, top_k, external, keywords, is_urgent_rule, k,
                 medical_facts, retrievals, attempt, calls, waited, attempts_log,
                 llm_response, gateway_error, result>>

\* analyze_health_query up to the analysis call: ConfigurationError ends the
\* process there, a GeminiAPIError of the client's constructor is re-raised
\* and reaches main's GeminiAPIError clause, and otherwise the analyzer is
\* called.
CliSetup(outcome) ==
  /\ pc = "cli_setup"
  /\ CASE outcome = "no_key" ->
            /\ pc' = "cli_config_exit"
            /\ error' = [type |-> "ConfigurationError", cause |-> "no_key", attempts |-> 0]
       [] outcome = "configure_failed" ->
            /\ pc' = "cli_api_exit"
            /\ error' = [type |-> "GeminiAPIError", cause |-> "configure", attempts |-> 0]
       [] outcome = "ok" ->
            /\ pc' = "idle"
            /\ UNCHANGED error
  /\ UNCHANGED <<caller, max_retries, top_k, external, keywords, symptoms, is_urgent_rule, k,
                 medical_facts, retrievals, attempt, calls, waited, attempts_log,
                 llm_response, gateway_error, result>>

\* main() after the analysis call: the result as a dictionary is put out, or
\* the exception, re-raised by analyze_health_query, meets main's except
\* clauses in their order.
CliFinish ==
  /\ caller = "cli"
  /\ pc \in {"done", "raised"}
  /\ IF pc = "done"
       THEN /\ external' = to_dict(result)
            /\ pc' = "cli_output"
       ELSE /\ pc' = IF error.type = "ValidationError" THEN "cli_validation_exit"
                     ELSE IF error.type = "GeminiAPIError" THEN "cli_api_exit"
                     ELSE "cli_unexpected_exit"
            /\ UNCHANGED external
  /\ UNCHANGED <<caller, max_retries, top_k, keywords, symptoms, is_urgent_rule, k,
                 medical_facts, retrievals, attempt, calls, waited, attempts_log,
                 llm_response, gateway_error, result, error>>

\* A request arriving at the HTTP handler, with or without a configured
\* analyzer, or the CLI started.
InitCallers ==
  /\ \/ caller = "http" /\ pc \in {"http_request", "http_unconfigured"}
     \/ caller = "cli" /\ pc = "cli_main"
  /\ max_retries \in 0..MaxRetries
  /\ top_k = DefaultTopK
  /\ symptoms = <<>>
  /\ is_urgent_rule = FALSE
  /\ k = 0
  /\ keywords = <<>>
  /\ medical_facts = <<>>
  /\ retrievals = 0
  /\ attempt = 0
  /\ calls = 0
  /\ waited = 0
  /\ attempts_log = <<>>
  /\ llm_response = NonObjectReply("null")
  /\ gateway_error = NoError
  /\ result = NoResult
  /\ error = NoError
  /\ external = NoExternal

NextCallers ==
  \/ HttpNotConfigured
  \/ \E body \in HttpBodies : HttpReceive(body)
  \/ \E text \in CallerTexts : CliStart(text)
  \/ \E outcome \in SetupOutcomes : CliSetup(outcome)
  \/ AnalyzeStart(symptoms)
  \/ Retrieve
  \/ GatewayNoAttempt
  \/ \E v \in GatewayReplies : ModelReplies(v)
  \/ ModelRepliesUnparsable
  \/ \E e \in CallErrors : ModelFails(e)
  \/ AnalyzeCatch
  \/ ParseAndMerge
  \/ HttpRespond
  \/ CliFinish

SpecCallers ==
  InitCallers /\ [][NextCallers]_vars

\* ------------------------------------------------------------------------
\* Properties
\* ------------------------------------------------------------------------

\* s is empty or consists of whitespace only.
IsBlank(s) ==
  \A i \in 1..Len(s) : s[i] \in Whitespace

\* Some urgent phrase occurs in s, letter case disregarded.
ContainsUrgentPhrase(s) ==
  \E n \in 1..Len(URGENT_KEYWORDS) :
    LET phrase == URGENT_KEYWORDS[n]
    IN  \E i \in 0..(Len(s) - Len(phrase)) :
          \A j \in 1..Len(phrase) : LowerChar(s[i + j]) = LowerChar(phrase[j])

\* analyze_symptoms returned a result built from a parsed reply.
ReturnedParsed ==
  pc = "done" /\ gateway_error = NoError

\* analyze_symptoms returned the result built after a gateway failure.
ReturnedFallback ==
  pc = "done" /\ gateway_error # NoError

\* Every attempt the gateway was allowed has been made and logged as one of kinds.
AllAttemptsWere(kinds) ==
  /\ max_retries >= 1
  /\ Len(attempts_log) = max_retries
  /\ \A i \in 1..Len(attempts_log) : attempts_log[i] \in kinds

Min(a, b) ==
  IF a < b THEN a ELSE b

\* C1: whenever analyze_symptoms returns a result for a text containing an
\* urgent phrase (in any letter case), the result is flagged, whatever the
\* model replied and also when the gateway call failed.
C1_UrgentPhraseAlwaysFlagged ==
  (pc = "done" /\ ContainsUrgentPhrase(symptoms)) => result.flagged = TRUE

\* C1 witness: an urgent text in mixed case, a reply saying not urgent with
\* one Low condition, and a returned result.
C1_Witness ==
  /\ ReturnedParsed
  /\ symptoms = ChestPainCaps
  /\ llm_response.is_urgent = Some(FALSE)
  /\ llm_response.urgency_level = Some("Low")
  /\ llm_response.conditions.items = <<ConditionEntry(Some("Low"))>>
  /\ result.flagged

\* C2: a blank or whitespace-only text ends analyze_symptoms in
\* ValidationError with no retrieval and no model call made.
C2_BlankRejectedBeforeAnyCall ==
  (pc # "idle" /\ IsBlank(symptoms)) =>
    /\ pc = "raised"
    /\ error.type = "ValidationError"
    /\ retrievals = 0
    /\ calls = 0

\* C2 witness: a text of three whitespace characters has been rejected.
C2_Witness ==
  /\ pc = "raised"
  /\ symptoms = TabsText
  /\ error.type = "ValidationError"

\* C3 (as claimed): analyze_symptoms raises only on a text that fails
\* validation; for a valid text it returns, whatever the model replied.
C3_ValidTextNeverRaises ==
  pc = "raised" => validate_symptoms(symptoms) # "ok"

\* C4 (as claimed): no run ends in a failure for a text containing an urgent
\* phrase; the exceptions analyze_symptoms raises carry a type and a message
\* only, so a raised failure hands the caller nothing of the gate's value.
C4_UrgentTextNeverEndsInFailure ==
  ContainsUrgentPhrase(symptoms) => pc # "raised"

\* C5 (as claimed): a parsed reply with is_urgent false and a Critical
\* condition at any position gives a flagged result of urgency_level Critical.
C5_CriticalConditionWins ==
  ( /\ ReturnedParsed
    /\ llm_response.is_urgent = Some(FALSE)
    /\ \E i \in 1..Len(llm_response.conditions.items) :
         llm_response.conditions.items[i].urgency = Some("Critical") )
  => (result.flagged /\ result.urgency_level = "Critical")

\* C5 (amended): a parsed reply with is_urgent false and a Critical condition
\* gives a flagged result whose urgency_level is that of the first condition
\* in list order that is Critical or Urgent: Critical when no Urgent
\* condition precedes the first Critical one, Urgent otherwise.
C5_FirstUrgentConditionWins ==
  ( /\ ReturnedParsed
    /\ llm_response.is_urgent = Some(FALSE)
    /\ \E i \in 1..Len(llm_response.conditions.items) :
         llm_response.conditions.items[i].urgency = Some("Critical") )
  => LET items == llm_response.conditions.items
         firstCritical == CHOOSE i \in 1..Len(items) :
                            /\ items[i].urgency = Some("Critical")
                            /\ \A j \in 1..(i - 1) : items[j].urgency # Some("Critical")
     IN  /\ result.flagged
         /\ result.urgency_level =
              IF \E j \in 1..(firstCritical - 1) : items[j].urgency = Some("Urgent")
                THEN "Urgent" ELSE "Critical"

\* C5 witness: is_urgent false, urgency_level Low, a Low condition followed
\* by a Critical one, no urgent phrase in the text: flagged and Critical.
C5_Witness ==
  /\ ReturnedParsed
  /\ ~is_urgent_rule
  /\ llm_response.is_urgent = Some(FALSE)
  /\ llm_response.urgency_level = Some("Low")
  /\ llm_response.conditions.items =
       <<ConditionEntry(Some("Low")), ConditionEntry(Some("Critical"))>>
  /\ result.flagged
  /\ result.urgency_level = "Critical"

\* The result was flagged by the rule-based gate alone: the gate fired, the
\* reply did not say urgent and no condition is Critical or Urgent.
FlaggedByRuleOnly ==
  /\ is_urgent_rule
  /\ Get(llm_response.is_urgent, FALSE) = FALSE
  /\ \A i \in 1..Len(result.conditions) :
       result.conditions[i].urgency \notin {"Critical", "Urgent"}

\* C6 (as claimed): a returned result that is flagged has urgency_level
\* Critical or Urgent unless it was flagged by the rule-based gate alone.
C6_FlaggedImpliesUrgentLevel ==
  (pc = "done" /\ result.flagged) =>
    \/ result.urgency_level \in {"Critical", "Urgent"}
    \/ FlaggedByRuleOnly

\* The facts of the table that the keywords of s match with a score > 0.
MatchingFacts(s) ==
  {n \in 1..Len(MEDICAL_FACTS_DB) :
     MatchCount(MEDICAL_FACTS_DB[n], extract_keywords(s), 1) > 0}

\* C7 (as claimed): for a non-blank text, retrieval returns at least
\* min(k, number of facts in the table) facts.
C7_AtLeastMinKTotal ==
  (pc = "retrieved" /\ ~IsBlank(symptoms)) =>
    Len(medical_facts) >= Min(k, Len(MEDICAL_FACTS_DB))

\* C7 (amended): for a non-blank text and k >= 0, retrieval returns
\* min(k, m) facts when the keyword match finds m >= 1 facts and
\* min(k, number of facts in the table) when it finds none, so at least
\* min(k, 1); a blank text gives the empty list.
C7_AtLeastMinKMatches ==
  pc = "retrieved" =>
    IF IsBlank(symptoms) THEN medical_facts = <<>>
    ELSE LET m == Cardinality(MatchingFacts(symptoms))
         IN  /\ Len(medical_facts) =
                  IF m >= 1 THEN Min(k, m) ELSE Min(k, Len(MEDICAL_FACTS_DB))
             /\ Len(medical_facts) >= Min(k, 1)

\* C7 witness: a non-blank text whose keywords match no fact, retrieved with
\* a k larger than the table: the whole table comes back.
C7_Witness ==
  /\ pc = "retrieved"
  /\ ~IsBlank(symptoms)
  /\ extract_keywords(symptoms) # <<>>
  /\ MatchingFacts(symptoms) = {}
  /\ k > Len(MEDICAL_FACTS_DB)
  /\ medical_facts = get_all_facts

\* C8: retrieval never returns more than k facts.
C8_AtMostK ==
  pc = "retrieved" => Len(medical_facts) <= k

\* C8 witness: a keyword match that found more than k facts, cut to k by a
\* per-call override.
C8_Witness ==
  /\ pc = "retrieved"
  /\ k # top_k
  /\ Cardinality(MatchingFacts(symptoms)) > k
  /\ Len(medical_facts) = k
  /\ k >= 2

\* C9: when every one of the max_retries >= 1 attempts ended in a JSON parse
\* failure, the gateway has returned, not raised, after exactly max_retries
\* model calls, and what it returned is the fixed fallback reply: one
\* condition "Unable to analyze" with confidence Low and urgency Moderate,
\* is_urgent false, urgency_level Moderate, an empty lifestyle list.
C9_ParseFailuresGiveFallbackReply ==
  AllAttemptsWere({"json"}) =>
    /\ pc = "parse"
    /\ gateway_error = NoError
    /\ calls = max_retries
    /\ llm_response.kind = "object"
    /\ llm_response.conditions.kind = "list"
    /\ Len(llm_response.conditions.items) = 1
    /\ llm_response.conditions.items[1].name = Some("Unable to analyze")
    /\ llm_response.conditions.items[1].confidence = Some("Low")
    /\ llm_response.conditions.items[1].urgency = Some("Moderate")
    /\ llm_response.is_urgent = Some(FALSE)
    /\ llm_response.urgency_level = Some("Moderate")
    /\ llm_response.lifestyle_suggestions = Some(<<>>)

\* C9 witness: three parse failures in a row with max_retries = 3.
C9_Witness ==
  /\ max_retries = 3
  /\ attempts_log = <<"json", "json", "json">>
  /\ pc = "parse"

\* C10: when every one of the max_retries >= 1 attempts ended in a failure
\* other than a parse failure, the gateway has raised GeminiAPIError after
\* exactly max_retries model calls, carrying the last attempt's error and
\* the attempt count max_retries.
C10_CallFailuresRaiseGatewayError ==
  AllAttemptsWere(CallErrors) =>
    /\ pc = "gateway_raised"
    /\ gateway_error.type = "GeminiAPIError"
    /\ gateway_error.cause = attempts_log[max_retries]
    /\ gateway_error.attempts = max_retries
    /\ calls = max_retries

\* C10 witness: three failed calls with max_retries = 3, the last one a
\* timeout after two network errors.
C10_Witness ==
  /\ max_retries = 3
  /\ attempts_log = <<"network", "network", "timeout">>
  /\ pc = "gateway_raised"
  /\ gateway_error.cause = "timeout"

\* C11: when the gateway call inside analyze_symptoms raised, the returned
\* result has exactly one condition, named "Analysis Unavailable", flagged
\* is the rule-based gate's value, urgency_level is Urgent if the gate fired
\* and Moderate otherwise, metadata carries the triggering error and nothing
\* else, and no model reply was ever taken in.
C11_GatewayFailureResult ==
  ReturnedFallback =>
    /\ Len(result.conditions) = 1
    /\ result.conditions[1].name = "Analysis Unavailable"
    /\ result.flagged = is_urgent_rule
    /\ result.flagged = ContainsUrgentPhrase(symptoms)
    /\ result.urgency_level = (IF ContainsUrgentPhrase(symptoms) THEN "Urgent" ELSE "Moderate")
    /\ result.metadata = [NoMetadata EXCEPT !.error = Some(gateway_error)]
    /\ gateway_error.type = "GeminiAPIError"
    /\ llm_response = NonObjectReply("null")
    /\ \A i \in 1..Len(attempts_log) : attempts_log[i] # "ok"

\* C11 witness: an urgent text, two attempts, the last one a timeout: the
\* result is flagged and Urgent with the single fallback condition.
C11_Witness ==
  /\ ReturnedFallback
  /\ symptoms = SevereChestPain
  /\ max_retries = 2
  /\ attempts_log = <<"json", "timeout">>
  /\ gateway_error.cause = "timeout"
  /\ result.flagged
  /\ result.urgency_level = "Urgent"
  /\ result.conditions[1].name = "Analysis Unavailable"

\* The number of characters of s between its first and its last character
\* that is not whitespace, both included; 0 when there is none.
TrimmedLen(s) ==
  LET solid == {i \in 1..Len(s) : s[i] \notin Whitespace}
  IN  IF solid = {} THEN 0
      ELSE (CHOOSE i \in solid : \A j \in solid : j <= i)
           - (CHOOSE i \in solid : \A j \in solid : i <= j) + 1

\* C12: once analyze_symptoms has been called, it has raised ValidationError
\* (before any retrieval) if the text is blank, has fewer than 3 characters
\* after trimming, or has more than 2000 characters; otherwise (3 trimmed
\* characters and 2000 characters included) it has raised nothing, has
\* evaluated the gate on the text and goes on to retrieval.
C12_ValidationBoundaries ==
  pc # "idle" =>
    IF IsBlank(symptoms) \/ TrimmedLen(symptoms) < 3 \/ Len(symptoms) > 2000
      THEN /\ pc = "raised"
           /\ error.type = "ValidationError"
           /\ retrievals = 0
      ELSE /\ pc \in {"retrieve", "gateway"}
           /\ error = NoError
           /\ is_urgent_rule = ContainsUrgentPhrase(symptoms)
           /\ pc = "gateway" => retrievals = 1

\* C12 witness: a text of exactly 2000 characters whose trimmed length is
\* 1998 has passed validation and retrieval has run on it.
C12_Witness ==
  /\ Len(symptoms) = 2000
  /\ TrimmedLen(symptoms) = 1998
  /\ pc = "gateway"
  /\ retrievals = 1
  /\ error = NoError

\* C12 second boundary: a text of exactly 3 trimmed characters between
\* whitespace has passed validation and retrieval has run on it.
C12_WitnessShortest ==
  /\ Len(symptoms) = 5
  /\ TrimmedLen(symptoms) = 3
  /\ pc = "gateway"
  /\ retrievals = 1

\* C13: for every reply the gateway returned, analyze_symptoms does not
\* raise, and in its result a condition whose confidence is absent or not
\* High, Medium or Low has confidence Low, a condition whose urgency is
\* absent or not Critical, Urgent, Moderate or Low (such as "critical") has
\* urgency Moderate, and a top-level urgency_level that is absent or not
\* canonical counts as Moderate: unless a condition's urgency takes its
\* place, the result's level is Moderate, raised to Urgent by the gate alone.
C13_OutOfRangeDegrades ==
  pc # "gateway" =>
    LET items == llm_response.conditions.items
    IN  /\ pc \in {"parse", "done"}
        /\ error = NoError
        /\ pc = "done" =>
             /\ Len(result.conditions) = Len(items)
             /\ \A i \in 1..Len(items) :
                  /\ result.conditions[i].confidence =
                       (IF items[i].confidence \in {Some("High"), Some("Medium"), Some("Low")}
                          THEN items[i].confidence[1] ELSE "Low")
                  /\ result.conditions[i].urgency =
                       (IF items[i].urgency \in {Some("Critical"), Some("Urgent"),
                                                 Some("Moderate"), Some("Low")}
                          THEN items[i].urgency[1] ELSE "Moderate")
             /\ ( /\ llm_response.urgency_level \notin
                       {Some("Critical"), Some("Urgent"), Some("Moderate"), Some("Low")}
                  /\ \/ llm_response.is_urgent = Some(TRUE)
                     \/ \A i \in 1..Len(items) :
                          items[i].urgency \notin {Some("Critical"), Some("Urgent")} )
                => result.urgency_level =
                     (IF is_urgent_rule /\ llm_response.is_urgent # Some(TRUE)
                        THEN "Urgent" ELSE "Moderate")

\* C13 witness: a reply with urgency_level "critical" and two conditions,
\* one with confidence "high" and urgency "critical", one with neither key:
\* both conditions come out Low and Moderate, and so does the level.
C13_Witness ==
  /\ pc = "done"
  /\ symptoms = MildHeadache
  /\ llm_response.urgency_level = Some("critical")
  /\ llm_response.is_urgent = Some(FALSE)
  /\ llm_response.conditions.items =
       <<ParseEntry(Some("high"), Some("critical")), ParseEntry(Missing, Missing)>>
  /\ result.conditions[1].confidence = "Low"
  /\ result.conditions[1].urgency = "Moderate"
  /\ result.conditions[2].confidence = "Low"
  /\ result.conditions[2].urgency = "Moderate"
  /\ result.urgency_level = "Moderate"
  /\ ~result.flagged

\* User keyword u and fact keyword f match: one contains the other, letter
\* case disregarded.
KeywordsMatch(u, f) ==
  Contains(Lower(u), Lower(f)) \/ Contains(Lower(f), Lower(u))

\* The score of table entry n for the keyword list ks, in hundredths: the
\* number of positions of ks whose keyword matches some keyword of the
\* fact, times the fact's reliability.
ScoreOf(n, ks) ==
  Cardinality({i \in 1..Len(ks) :
                 \E m \in 1..Len(MEDICAL_FACTS_DB[n].keywords) :
                   KeywordsMatch(ks[i], MEDICAL_FACTS_DB[n].keywords[m])})
  * MEDICAL_FACTS_DB[n].reliability_score

\* Fact a ranks before fact b: higher score, or equal score and earlier in
\* the table.
RanksBefore(a, b, ks) ==
  \/ ScoreOf(a, ks) > ScoreOf(b, ks)
  \/ ScoreOf(a, ks) = ScoreOf(b, ks) /\ a < b

\* C14: get_facts_by_keywords(keywords, limit) returns facts of score > 0
\* only, each once, as many as there are up to limit, in descending score
\* with equal scores in table order, and every fact of score > 0 left out
\* ranks after every fact returned; an empty or non-matching keyword list
\* gives the empty sequence.
C14_ScoredSortedTruncated ==
  pc = "facts_returned" =>
    LET out      == medical_facts
        positive == {n \in 1..Len(MEDICAL_FACTS_DB) : ScoreOf(n, keywords) > 0}
    IN  /\ Len(out) = Min(k, Cardinality(positive))
        /\ \A i \in 1..Len(out) : out[i] \in positive
        /\ \A i, j \in 1..Len(out) : i < j => RanksBefore(out[i], out[j], keywords)
        /\ \A n \in positive :
             (\A i \in 1..Len(out) : out[i] # n)
               => \A i \in 1..Len(out) : RanksBefore(out[i], n, keywords)
        /\ (keywords = <<>> \/ positive = {}) => out = <<>>

\* C14 witness: keywords ["Pain", "fever"] with limit 4: five facts score,
\* fact 8 matches both keywords and comes first, fact 12 is cut off.
C14_Witness ==
  /\ pc = "facts_returned"
  /\ keywords = << <<"P","a","i","n">>, <<"f","e","v","e","r">> >>
  /\ k = 4
  /\ medical_facts = <<8, 9, 3, 1>>

\* C14, ties: keyword ["fever"] scores facts 1 and 8 equally; they come in
\* table order.
C14_WitnessTie ==
  /\ pc = "facts_returned"
  /\ keywords = << <<"f","e","v","e","r">> >>
  /\ k = 5
  /\ medical_facts = <<1, 8>>

\* The i-th smallest member of a set of integers.
NthOf(S, i) ==
  CHOOSE x \in S : Cardinality({y \in S : y < x}) = i - 1

\* The positions of t where a maximal run of word characters starts.
RunStarts(t) ==
  {p \in 1..Len(t) : IsWordChar(t[p]) /\ (p = 1 \/ ~IsWordChar(t[p - 1]))}

\* The maximal run of word characters of t that starts at p.
RunAt(t, p) ==
  SubSeq(t, p, CHOOSE e \in p..Len(t) :
                 /\ \A j \in p..e : IsWordChar(t[j])
                 /\ (e = Len(t) \/ ~IsWordChar(t[e + 1])))

\* The curated terms occurring in t, as positions of the declaration list.
TermsIn(t) ==
  {n \in 1..Len(medical_keywords) : Contains(medical_keywords[n], t)}

\* The start positions of the tokens of t that qualify: longer than 3
\* characters, no stop word, no curated term occurring in t, and not the
\* same word as an earlier token.
QualifyingTokens(t) ==
  {p \in RunStarts(t) :
     /\ Len(RunAt(t, p)) > 3
     /\ RunAt(t, p) \notin stop_words
     /\ \A n \in TermsIn(t) : medical_keywords[n] # RunAt(t, p)
     /\ \A q \in RunStarts(t) : q < p => RunAt(t, q) # RunAt(t, p)}

\* keywords is what extract_keywords is claimed to return on symptoms.
C15_Shape ==
  LET t      == Lower(symptoms)
      terms  == TermsIn(t)
      tokens == QualifyingTokens(t)
      nTerms == Cardinality(terms)
  IN  /\ Len(keywords) <= 20
      /\ Len(keywords) = Min(20, nTerms + Cardinality(tokens))
      /\ \A i, j \in 1..Len(keywords) : i # j => keywords[i] # keywords[j]
      /\ \A i \in 1..Len(keywords) :
           keywords[i] = (IF i <= nTerms
                            THEN medical_keywords[NthOf(terms, i)]
                            ELSE RunAt(t, NthOf(tokens, i - nTerms)))

\* C15: after every call, extract_keywords has returned at most 20 entries
\* without duplicates, the curated terms found in the lowercased text first,
\* in declaration order, then the qualifying tokens in text order; and a
\* second call on the same text returns what the first returned.
C15_ExtractKeywords ==
  /\ [](pc \in {"extracted", "extracted_twice"} => C15_Shape)
  /\ [][pc' = "extracted_twice" => keywords' = keywords]_vars

\* C15 witness: the second call on a text with three curated terms and 23
\* distinct tokens has returned 20 keywords, the terms first.
C15_Witness ==
  /\ pc = "extracted_twice"
  /\ symptoms = TermsAndTokensText
  /\ Len(keywords) = 20
  /\ keywords[1] = <<"f","e","v","e","r">>
  /\ keywords[3] = <<"r","a","s","h">>
  /\ keywords[4] = <<"w","o","r","d","a">>
  /\ keywords[20] = <<"w","o","r","d","q">>

\* C15, repeated tokens: "dizzy" and "spells" occur twice and "headache" is
\* a curated term; each is returned once.
C15_WitnessRepeated ==
  /\ pc = "extracted"
  /\ symptoms = RepeatedTokensText
  /\ Len(keywords) = 6

\* analyze_symptoms returned for a text without urgent phrase and a reply
\* with is_urgent false whose single condition has confidence Low and
\* urgency Low.
MildCase ==
  /\ pc = "done"
  /\ ~ContainsUrgentPhrase(symptoms)
  /\ llm_response.is_urgent = Some(FALSE)
  /\ llm_response.conditions.items = <<ParseEntry(Some("Low"), Some("Low"))>>

\* C16 (as claimed): in that case the result is not flagged and its
\* urgency_level is Low, whatever the reply's own urgency_level.
C16_LowConditionGivesLowLevel ==
  MildCase => ~result.flagged /\ result.urgency_level = "Low"

\* C16 (amended): in that case the result is not flagged and its
\* urgency_level is the reply's top-level urgency_level, Moderate when that
\* is absent or not canonical; so it is Low when the reply's is Low.
C16_LevelIsTheRepliesLevel ==
  MildCase =>
    /\ ~result.flagged
    /\ result.urgency_level =
         (IF llm_response.urgency_level \in
               {Some("Critical"), Some("Urgent"), Some("Moderate"), Some("Low")}
            THEN llm_response.urgency_level[1] ELSE "Moderate")

\* C16 witness: "I have a mild headache", the reply's urgency_level Low.
C16_Witness ==
  /\ MildCase
  /\ symptoms = MildHeadache
  /\ llm_response.urgency_level = Some("Low")
  /\ ~result.flagged
  /\ result.urgency_level = "Low"

\* C17 (as claimed): the result parse_llm_response builds from the output
\* of to_dict has the conditions the serialised result had, equal in name,
\* confidence, reasoning, recommendation, urgency and related_symptoms.
C17_RoundTripKeepsConditions ==
  pc = "parsed_back" =>
    /\ Len(result.conditions) = Len(external.possible_conditions)
    /\ \A i \in 1..Len(external.possible_conditions) :
         /\ result.conditions[i].name = external.possible_conditions[i].condition
         /\ result.conditions[i].confidence = external.possible_conditions[i].confidence
         /\ result.conditions[i].reasoning = external.possible_conditions[i].reasoning
         /\ result.conditions[i].recommendation =
              external.possible_conditions[i].recommendation
         /\ result.conditions[i].urgency = external.possible_conditions[i].urgency
         /\ result.conditions[i].related_symptoms =
              external.possible_conditions[i].related_symptoms

\* C17 (amended): to_dict writes every condition of the result, in order,
\* with its name under "condition" and its confidence, reasoning,
\* recommendation, urgency and related_symptoms unchanged; parse_llm_response
\* finds no "conditions" key in that output and returns a result without
\* conditions (and does not raise).
C17_ToDictKeepsParseDrops ==
  /\ pc = "serialized" =>
       /\ Len(external.possible_conditions) = Len(result.conditions)
       /\ \A i \in 1..Len(result.conditions) :
            /\ external.possible_conditions[i].condition = result.conditions[i].name
            /\ external.possible_conditions[i].confidence = result.conditions[i].confidence
            /\ external.possible_conditions[i].reasoning = result.conditions[i].reasoning
            /\ external.possible_conditions[i].recommendation =
                 result.conditions[i].recommendation
            /\ external.possible_conditions[i].urgency = result.conditions[i].urgency
            /\ external.possible_conditions[i].related_symptoms =
                 result.conditions[i].related_symptoms
  /\ pc # "raised"
  /\ pc = "parsed_back" =>
       /\ llm_response.conditions.kind = "missing"
       /\ result.conditions = <<>>

\* C17 witness: a result with two conditions was serialised and read back:
\* the external representation has both, the result read back has none.
C17_Witness ==
  /\ pc = "parsed_back"
  /\ Len(external.possible_conditions) = 2
  /\ external.possible_conditions[1].related_symptoms = <<"fever", "cough">>
  /\ external.possible_conditions[2].urgency = "Critical"
  /\ result.conditions = <<>>

\* C18 (as claimed): every call of the gateway eventually ends, returning a
\* reply or raising GeminiAPIError, also when the model does not reply.
C18_GatewayEventuallyEnds ==
  <>(pc \in {"parse", "gateway_raised"})

\* C18, safety half: at most max_retries calls are ever in the log, so the
\* loop itself is bounded; what does not end is a single call.
C18_LoopIsBounded ==
  Len(attempts_log) <= max_retries /\ attempt <= max_retries

\* C19: in one call of the gateway the model is called at most max_retries
\* times (never when max_retries <= 0, and then the only way out is raising
\* GeminiAPIError); an attempt whose reply parsed is the last entry of the
\* log, the gateway has returned that reply, and no call follows it.
C19_CallsBounded ==
  /\ [](/\ calls = Len(attempts_log)
        /\ calls <= (IF max_retries > 0 THEN max_retries ELSE 0)
        /\ \A i \in 1..Len(attempts_log) :
             attempts_log[i] = "ok" =>
               /\ i = Len(attempts_log)
               /\ pc = "parse"
               /\ llm_response \in GatewayReplies
        /\ max_retries <= 0 =>
             /\ calls = 0
             /\ pc \in {"gateway", "gateway_raised"}
             /\ pc = "gateway_raised" => gateway_error.type = "GeminiAPIError")
  /\ [][(attempts_log # <<>> /\ attempts_log[Len(attempts_log)] = "ok")
          => calls' = calls]_vars

\* C19 witness: max_retries = 3, the first call fails, the second one's
\* reply parses: the gateway has returned after two calls.
C19_Witness ==
  /\ max_retries = 3
  /\ attempts_log = <<"network", "ok">>
  /\ calls = 2
  /\ pc = "parse"
  /\ llm_response \in GatewayReplies

\* C19, no attempts: with max_retries = -1 the gateway has raised without
\* calling the model.
C19_WitnessNoAttempt ==
  /\ max_retries = -1
  /\ pc = "gateway_raised"
  /\ calls = 0
  /\ gateway_error.type = "GeminiAPIError"

\* C20: when all max_retries >= 1 attempts failed, in any mix of parse
\* failures and other failures, the last attempt alone decides: a parse
\* failure last, and the gateway has returned the fixed fallback reply; any
\* other failure last, and it has raised GeminiAPIError carrying that failure.
C20_LastFailureDecides ==
  AllAttemptsWere(CallErrors \cup {"json"}) =>
    IF attempts_log[max_retries] = "json"
      THEN /\ pc = "parse"
           /\ llm_response = _create_fallback_response
           /\ gateway_error = NoError
      ELSE /\ pc = "gateway_raised"
           /\ gateway_error = [type |-> "GeminiAPIError",
                               cause |-> attempts_log[max_retries],
                               attempts |-> max_retries]
           /\ llm_response = NonObjectReply("null")

\* C20 witness: two call failures and then a parse failure: the fallback
\* reply has been returned.
C20_Witness ==
  /\ max_retries = 3
  /\ attempts_log = <<"network", "timeout", "json">>
  /\ pc = "parse"
  /\ llm_response = _create_fallback_response

\* C20, the other way round: two parse failures and then a call failure:
\* GeminiAPIError has been raised.
C20_WitnessRaised ==
  /\ max_retries = 3
  /\ attempts_log = <<"json", "json", "auth">>
  /\ pc = "gateway_raised"
  /\ gateway_error.cause = "auth"

\* The reply's is_urgent as parse_llm_response reads it: false when absent.
SaidUrgent ==
  IF llm_response.is_urgent = Missing THEN FALSE ELSE llm_response.is_urgent[1]

\* The positions of the parsed conditions whose urgency is Critical or Urgent.
UrgentPositions ==
  {i \in 1..Len(result.conditions) :
     result.conditions[i].urgency \in {"Critical", "Urgent"}}

\* The reply's top-level urgency_level as an enumeration member: itself when
\* it is one of the four canonical spellings, Moderate otherwise.
RepliedLevel ==
  IF llm_response.urgency_level \in
       {Some("Critical"), Some("Urgent"), Some("Moderate"), Some("Low")}
    THEN llm_response.urgency_level[1]
    ELSE "Moderate"

\* C21: on the non-error path flagged is true exactly when the reply's
\* is_urgent is true, or some parsed condition is Critical or Urgent, or the
\* rule-based gate fired; with is_urgent false and such a condition present,
\* urgency_level is that of the first such condition in list order; with
\* is_urgent true, urgency_level is the reply's own level whatever the
\* conditions are.
C21_FlaggedIffAnySource ==
  ReturnedParsed =>
    /\ result.flagged <=>
         (SaidUrgent \/ UrgentPositions # {} \/ ContainsUrgentPhrase(symptoms))
    /\ (~SaidUrgent /\ UrgentPositions # {}) =>
         \E i \in UrgentPositions :
           /\ \A j \in UrgentPositions : i <= j
           /\ result.urgency_level = result.conditions[i].urgency
    /\ SaidUrgent => result.urgency_level = RepliedLevel

\* C21 witness: is_urgent true with urgency_level Low and a Critical
\* condition, no urgent phrase in the text: flagged, and the level stays Low.
C21_Witness ==
  /\ ReturnedParsed
  /\ ~is_urgent_rule
  /\ llm_response.is_urgent = Some(TRUE)
  /\ llm_response.urgency_level = Some("Low")
  /\ llm_response.conditions.items = <<ConditionEntry(Some("Critical"))>>
  /\ result.flagged
  /\ result.urgency_level = "Low"

\* C21 witness: is_urgent false, an Urgent condition ahead of a Critical one:
\* flagged, and the level is Urgent.
C21_WitnessFirstMatch ==
  /\ ReturnedParsed
  /\ llm_response.is_urgent = Some(FALSE)
  /\ llm_response.conditions.items =
       <<ConditionEntry(Some("Urgent")), ConditionEntry(Some("Critical"))>>
  /\ result.flagged
  /\ result.urgency_level = "Urgent"

\* C21 witness: nothing but the gate flags the result.
C21_WitnessGateOnly ==
  /\ ReturnedParsed
  /\ is_urgent_rule
  /\ ~SaidUrgent
  /\ UrgentPositions = {}
  /\ result.flagged

\* The order of the urgency levels, least urgent first.
UrgencyRank(level) ==
  CASE level = "Low"      -> 0
    [] level = "Moderate" -> 1
    [] level = "Urgent"   -> 2
    [] level = "Critical" -> 3

\* C22: the merge with the rule-based gate changes flagged and urgency_level
\* of the parsed result only when the gate fired and the parsed result is not
\* flagged: flagged becomes true and a Moderate urgency_level becomes Urgent,
\* while Critical, Urgent and Low stay; in every other case both are as
\* parsed. The merge never lowers urgency_level, never clears flagged, and
\* leaves conditions, next_steps and lifestyle_suggestions as parsed.
C22_MergeFrame ==
  ReturnedParsed =>
    LET parsed == parse_llm_response(llm_response)
        fire   == ContainsUrgentPhrase(symptoms) /\ ~parsed.flagged
    IN  /\ fire =>
             /\ result.flagged
             /\ result.urgency_level =
                  IF parsed.urgency_level = "Moderate" THEN "Urgent"
                  ELSE parsed.urgency_level
        /\ ~fire =>
             /\ result.flagged = parsed.flagged
             /\ result.urgency_level = parsed.urgency_level
        /\ UrgencyRank(result.urgency_level) >= UrgencyRank(parsed.urgency_level)
        /\ parsed.flagged => result.flagged
        /\ result.conditions = parsed.conditions
        /\ result.next_steps = parsed.next_steps
        /\ result.lifestyle_suggestions = parsed.lifestyle_suggestions

\* C22 witness: the gate fired on a reply that says not urgent with
\* urgency_level Critical and no urgent condition: flagged now, still Critical.
C22_Witness ==
  /\ ReturnedParsed
  /\ is_urgent_rule
  /\ ~parse_llm_response(llm_response).flagged
  /\ llm_response.urgency_level = Some("Critical")
  /\ result.flagged
  /\ result.urgency_level = "Critical"

\* C22 witness: the gate fired on an unflagged Moderate result: Urgent now.
C22_WitnessUpgrade ==
  /\ ReturnedParsed
  /\ is_urgent_rule
  /\ ~parse_llm_response(llm_response).flagged
  /\ parse_llm_response(llm_response).urgency_level = "Moderate"
  /\ result.flagged
  /\ result.urgency_level = "Urgent"

\* C22 witness: the gate fired on an unflagged Low result: flagged, still Low.
C22_WitnessLowStays ==
  /\ ReturnedParsed
  /\ is_urgent_rule
  /\ ~parse_llm_response(llm_response).flagged
  /\ parse_llm_response(llm_response).urgency_level = "Low"
  /\ result.flagged
  /\ result.urgency_level = "Low"

\* C22 witness: the gate did not fire and the parsed result is returned with
\* flagged false and urgency_level Moderate.
C22_WitnessUntouched ==
  /\ ReturnedParsed
  /\ ~is_urgent_rule
  /\ llm_response.conditions.kind = "list"
  /\ ~result.flagged
  /\ result.urgency_level = "Moderate"

\* The first n entries of the fact table, in table order (all of them when
\* n exceeds the table).
TableHead(n) ==
  [i \in 1..Min(n, Len(MEDICAL_FACTS_DB)) |-> i]

\* C23: for a non-blank text whose keyword extraction yields nothing, or
\* whose keywords match no fact of the table, retrieve_relevant_facts returns
\* the first k entries of the table in table order, a value that depends on
\* k alone; for a blank text it returns the empty list and raises nothing.
C23_FallbackIsTableHead ==
  pc = "retrieved" =>
    /\ error = NoError
    /\ IF IsBlank(symptoms)
         THEN medical_facts = <<>>
         ELSE (\/ keywords = <<>>
               \/ \A n \in 1..Len(MEDICAL_FACTS_DB) : ScoreOf(n, keywords) = 0)
              => medical_facts = TableHead(k)

\* C23 witness: "xyzzy" yields a keyword that matches no fact; with a
\* per-call k of 3 the first three entries of the table come back.
C23_Witness ==
  /\ pc = "retrieved"
  /\ symptoms = <<"x","y","z","z","y">>
  /\ keywords = << <<"x","y","z","z","y">> >>
  /\ k = 3
  /\ medical_facts = <<1, 2, 3>>

\* C23 witness: "have " is non-blank and yields no keyword at all, "have"
\* being a stop word; the same three entries come back.
C23_WitnessNoKeywords ==
  /\ pc = "retrieved"
  /\ symptoms = <<"h","a","v","e"," ">>
  /\ keywords = <<>>
  /\ k = 3
  /\ medical_facts = <<1, 2, 3>>

\* C23 witness: a text of one space gives the empty list.
C23_WitnessBlank ==
  /\ pc = "retrieved"
  /\ symptoms = <<" ">>
  /\ k = 3
  /\ medical_facts = <<>>

\* The gateway call inside analyze_symptoms raised and the exception has met
\* the handler around the call.
GatewayRaisedAndHandled ==
  gateway_error # NoError /\ pc # "gateway_raised"

\* C24: analyze_symptoms never lets a GeminiAPIError out: whenever the
\* gateway call raised, the call returned the "Analysis Unavailable" result
\* and the front end put that result out; no exception analyze_symptoms
\* raises is a GeminiAPIError; the HTTP handler's 503 branch is never
\* entered, and the CLI's GeminiAPIError branch only when the client's
\* construction failed, before any analysis call.
C24_GatewayErrorNeverPropagates ==
  /\ pc # "http_503"
  /\ pc = "raised" => error.type # "GeminiAPIError"
  /\ pc = "cli_api_exit" =>
       /\ error.cause = "configure"
       /\ gateway_error = NoError
       /\ retrievals = 0
       /\ calls = 0
  /\ GatewayRaisedAndHandled =>
       /\ pc \in {"done", "http_200", "cli_output"}
       /\ error = NoError
       /\ Len(result.conditions) = 1
       /\ result.conditions[1].name = "Analysis Unavailable"
       /\ result.metadata.error = Some(gateway_error)

\* C24 witness: through the HTTP handler, two failed attempts, the gateway
\* raised GeminiAPIError, and the answer has status 200 with the single
\* "Analysis Unavailable" condition.
C24_Witness ==
  /\ caller = "http"
  /\ pc = "http_200"
  /\ max_retries = 2
  /\ attempts_log = <<"network", "auth">>
  /\ gateway_error.type = "GeminiAPIError"
  /\ Len(external.possible_conditions) = 1
  /\ external.possible_conditions[1].condition = "Analysis Unavailable"

\* C24 witness: through the CLI, the gateway raised and the result was put out.
C24_WitnessCli ==
  /\ caller = "cli"
  /\ pc = "cli_output"
  /\ gateway_error.type = "GeminiAPIError"
  /\ external.possible_conditions[1].condition = "Analysis Unavailable"

\* C24 witness: the CLI's GeminiAPIError branch entered after a failed
\* construction of the client.
C24_WitnessConstruction ==
  /\ pc = "cli_api_exit"
  /\ error.type = "GeminiAPIError"
  /\ calls = 0

\* The wait that follows the attempt logged at position i of the log, when
\* another attempt follows it: 1 after a JSON parse failure, 2^(i-1) after
\* any other failure (position i is attempt i-1).
WaitAfter(i) ==
  IF attempts_log[i] = "json" THEN 1 ELSE 2 ^ (i - 1)

\* The sum of WaitAfter over the positions 1..n of the log.
RECURSIVE TotalWait(_)
TotalWait(n) ==
  IF n = 0 THEN 0 ELSE TotalWait(n - 1) + WaitAfter(n)

\* C25: in GeminiClient.analyze_symptoms every failed attempt but the last
\* allowed one is followed by a wait of 1 after a JSON parse failure and of
\* 2^attempt after any other failure, attempt counted from 0; nothing else
\* waits, in particular not the final attempt and not a reply that parses;
\* so when all max_retries >= 1 attempts failed otherwise than by parsing,
\* the total wait is 2^(max_retries - 1) - 1.
C25_Backoff ==
  /\ [](/\ waited = TotalWait(attempt)
        /\ AllAttemptsWere(CallErrors) => waited = 2 ^ (max_retries - 1) - 1)
  /\ [][IF attempt' = attempt + 1
          THEN /\ Len(attempts_log') = attempt'
               /\ attempts_log'[attempt'] # "ok"
               /\ waited' - waited =
                    (IF attempts_log'[attempt'] = "json" THEN 1 ELSE 2 ^ attempt)
          ELSE waited' = waited]_vars

\* C25 witness: four failed calls with max_retries = 4: waits of 1, 2 and 4,
\* none after the last, GeminiAPIError raised.
C25_Witness ==
  /\ max_retries = 4
  /\ attempts_log = <<"network", "timeout", "auth", "network">>
  /\ waited = 7
  /\ pc = "gateway_raised"

\* C25 witness: a parse failure between two failed calls waits 1, not 2.
C25_WitnessMixed ==
  /\ max_retries = 4
  /\ attempts_log = <<"network", "json", "timeout">>
  /\ attempt = 3
  /\ waited = 6

====
